---- MODULE Spec2Model ----
(***************************************************************************)
(* Checkpointed, idempotent event replay (backend/src/replay).             *)
(*                                                                         *)
(* The model covers the replay engine (engine.rs), the composite event     *)
(* processor with retry/backoff (event_processor.rs), the range resolver   *)
(* (config.rs), the event and session stores (storage.rs) and the          *)
(* checkpoint store (checkpoint.rs).                                       *)
(***************************************************************************)
EXTENDS Integers, Sequences, FiniteSets, TLC

(***************************************************************************)
(* Bounds of the model                                                     *)
(***************************************************************************)
MaxLedger == 2
MaxEvents == 2
MaxRetries == 3

Calls == {1, 2}
Ledgers == 0..MaxLedger
EventIds == 1..MaxEvents
None == "none"

\* Option<T>: <<>> is None, <<x>> is Some(x)
Some(x) == <<x>>
unwrap_or(opt, default) == IF opt = <<>> THEN default ELSE opt[1]

(***************************************************************************)
(* Events.  An event of the store is [id, ledger_sequence, event_type,     *)
(* contract_id, has_data]; has_data says whether the payload carries the   *)
(* epoch and hash fields the snapshot processor extracts.                  *)
(***************************************************************************)
EventKinds == {"A", "B"}

KindFields(k) ==
    IF k = "A"
    THEN [event_type |-> "snapshot_submitted", contract_id |-> "C1", has_data |-> TRUE,
          network |-> "testnet"]
    ELSE IF k = "NoData"
    THEN [event_type |-> "snapshot_submitted", contract_id |-> "C1", has_data |-> FALSE,
          network |-> "testnet"]
    ELSE IF k = "NoContract"
    THEN [event_type |-> "snapshot_submitted", contract_id |-> "", has_data |-> TRUE,
          network |-> "testnet"]
    ELSE [event_type |-> "other", contract_id |-> "C1", has_data |-> TRUE,
          network |-> "testnet"]

MkEvent(i, l, k) ==
    [id |-> i, ledger_sequence |-> l, event_type |-> KindFields(k).event_type,
     contract_id |-> KindFields(k).contract_id, has_data |-> KindFields(k).has_data,
     network |-> KindFields(k).network]

\* ContractEvent::unique_id: the key of the processed_events markers
unique_id(event) == event.id

(***************************************************************************)
(* ProcessingResult (event_processor.rs)                                   *)
(***************************************************************************)
ResultSuccess(changes) ==
    [success |-> TRUE, error |-> None, state_changes |-> changes, skipped |-> FALSE]

ResultFailure(error) ==
    [success |-> FALSE, error |-> error, state_changes |-> <<>>, skipped |-> FALSE]

ResultSkipped ==
    [success |-> TRUE, error |-> None, state_changes |-> <<>>, skipped |-> TRUE]

\* EventProcessor::validate_event (default implementation)
validate_event(event) ==
    IF event.contract_id = "" THEN "Contract ID is empty"
    ELSE IF event.event_type = "" THEN "Event type is empty"
    ELSE None

\* The processors registered in the composite: instances of the snapshot
\* processor over the same database pool.
SnapshotEventProcessor == [name |-> "SnapshotEventProcessor", handles |-> "snapshot_submitted"]

ProcessorLists == {<<>>, <<SnapshotEventProcessor>>,
                   <<SnapshotEventProcessor, SnapshotEventProcessor>>}

BackoffMs_FromZero(attempts) == 100 * (2 ^ (attempts - 1))

\* the exponential backoff slept before a retry, in milliseconds
BackoffMs(attempts) == 100 * (2 ^ attempts)

(***************************************************************************)
(* ReplayConfig and ReplayRange (config.rs)                                *)
(***************************************************************************)
RangeAll == [tag |-> "All", start |-> 0, end |-> 0, checkpoint_id |-> 0, count |-> 0]
RangeFrom(s) == [RangeAll EXCEPT !.tag = "From", !.start = s]
RangeTo(e) == [RangeAll EXCEPT !.tag = "To", !.end = e]
RangeFromTo(s, e) == [RangeAll EXCEPT !.tag = "FromTo", !.start = s, !.end = e]
RangeFromCheckpoint(id) == [RangeAll EXCEPT !.tag = "FromCheckpoint", !.checkpoint_id = id]
RangeLast(n) == [RangeAll EXCEPT !.tag = "Last", !.count = n]

saturating_sub_Wrapping(a, b) == a - b

\* u64::saturating_sub
saturating_sub(a, b) == IF a >= b THEN a - b ELSE 0

\* ReplayRange::start_ledger
start_ledger(range, latest, checkpoint_ledger) ==
    CASE range.tag = "All" -> Some(0)
      [] range.tag = "From" -> Some(range.start)
      [] range.tag = "To" -> Some(0)
      [] range.tag = "FromTo" -> Some(range.start)
      [] range.tag = "FromCheckpoint" -> checkpoint_ledger
      [] range.tag = "Last" -> Some(saturating_sub(latest, range.count))

\* ReplayRange::end_ledger
end_ledger(range, latest) ==
    CASE range.tag = "All" -> Some(latest)
      [] range.tag = "From" -> Some(latest)
      [] range.tag = "To" -> Some(range.end)
      [] range.tag = "FromTo" -> Some(range.end)
      [] range.tag = "FromCheckpoint" -> Some(latest)
      [] range.tag = "Last" -> Some(latest)

\* u64::MAX, the end taken when end_ledger gives none
U64Max == 2 ^ 64 - 1

\* ReplayRange::contains
contains(range, ledger, latest, checkpoint_ledger) ==
    LET start == unwrap_or(start_ledger(range, latest, checkpoint_ledger), 0)
        end == unwrap_or(end_ledger(range, latest), U64Max)
    IN ledger >= start /\ ledger <= end

\* EventFilter::default(): no dimension present
NoFilter == [contract_ids |-> <<>>, event_types |-> <<>>, network |-> <<>>]

validate_NoRangeCheck(config) ==
    IF config.batch_size = 0 THEN "Batch size must be greater than 0"
    ELSE IF config.max_workers = 0 THEN "Max workers must be greater than 0"
    ELSE IF config.checkpoint_interval = 0 THEN "Checkpoint interval must be greater than 0"
    ELSE IF config.event_timeout_secs = 0 THEN "Event timeout must be greater than 0"
    ELSE None

\* ReplayConfig::validate
validate(config) ==
    IF config.batch_size = 0 THEN "Batch size must be greater than 0"
    ELSE IF config.max_workers = 0 THEN "Max workers must be greater than 0"
    ELSE IF config.checkpoint_interval = 0 THEN "Checkpoint interval must be greater than 0"
    ELSE IF config.event_timeout_secs = 0 THEN "Event timeout must be greater than 0"
    ELSE IF config.range.tag = "FromTo" /\ config.range.start > config.range.end
         THEN "Invalid range"
    ELSE IF config.range.tag = "FromCheckpoint" /\ config.range.checkpoint_id = 0
         THEN "Checkpoint ID cannot be empty"
    ELSE None

new_Unchecked(config) == None

\* ReplayEngine::new: the config is validated before anything else; the result
\* is None for Ok(engine) and the ConfigError message otherwise
new(config) == validate(config)

(***************************************************************************)
(* The event store content: every store of at most MaxEvents events over   *)
(* the ledgers 0..MaxLedger, listed in the order of the query              *)
(* (ledger_sequence ascending, id ascending).                              *)
(***************************************************************************)
Stores ==
    UNION { { [i \in 1..n |-> MkEvent(i, f[i], g[i])] :
                f \in { h \in [1..n -> Ledgers] :
                          \A i \in 1..n, j \in 1..n : i < j => h[i] <= h[j] },
                g \in [1..n -> EventKinds] } : n \in 0..MaxEvents }

VARIABLES
    events,            \* contract_events table, in (ledger_sequence, id) order
    processors,        \* CompositeEventProcessor.processors
    processed_events,  \* processed_events table: set of unique ids (the markers)
    snapshots,         \* snapshots table: set of epochs inserted
    config,            \* the ReplayConfig the engines were constructed with
    same_engine,       \* TRUE: the second start() is called on the first engine
    sessions,          \* replay_sessions table: session_id -> Option<row>
    checkpoints,       \* replay_checkpoints table, in insertion order
    state_builder,     \* StateBuilder of each engine: the events applied, in order
    sink,              \* what persist_state wrote, per engine
    pc,                \* position of each caller
    eng,               \* the locals of each start() activation
    disp,              \* the process_with_retry activation of each caller
    probe              \* arguments and results of an operation called directly

vars == <<events, processors, processed_events, snapshots, config, same_engine,
          sessions, checkpoints, state_builder, sink, pc, eng, disp, probe>>

data_vars == <<events, processors, config, same_engine, probe>>
store_vars == <<sessions, checkpoints, state_builder, sink>>

StoredIds == { events[i].id : i \in 1..Len(events) }

EventById(i) == CHOOSE e \in { events[j] : j \in 1..Len(events) } : e.id = i

(***************************************************************************)
(* EventStorage (storage.rs)                                               *)
(***************************************************************************)
\* the filter clauses of the query: a placeholder is appended for every
\* present dimension and no value is bound to it, so it compares with NULL
FilterClause(filter, event) ==
    /\ filter.contract_ids = <<>>
    /\ filter.event_types = <<>>
    /\ filter.network = <<>>

\* LIMIT n
Limit(rows, limit) ==
    IF limit # <<>> /\ Len(rows) > limit[1] THEN SubSeq(rows, 1, limit[1]) ELSE rows

get_events_in_range_Reversed(start, end, filter, limit) ==
    LET InRange(e) == /\ e.ledger_sequence >= start
                      /\ e.ledger_sequence <= end
                      /\ FilterClause(filter, e)
        rows == SelectSeq(events, InRange)
    IN Limit([i \in 1..Len(rows) |-> rows[Len(rows) + 1 - i]], limit)

\* EventStorage::get_events_in_range
get_events_in_range(start, end, filter, limit) ==
    LET InRange(e) == /\ e.ledger_sequence >= start
                      /\ e.ledger_sequence <= end
                      /\ FilterClause(filter, e)
    IN Limit(SelectSeq(events, InRange), limit)

\* EventStorage::count_events_in_range: COUNT(*) over the ledger range
count_events_in_range(start, end, filter) ==
    LET InRange(e) == e.ledger_sequence >= start /\ e.ledger_sequence <= end
    IN Len(SelectSeq(events, InRange))

\* EventStorage::get_latest_ledger: MAX(ledger_sequence)
get_latest_ledger ==
    IF Len(events) = 0 THEN <<>>
    ELSE Some(CHOOSE l \in Ledgers :
                /\ \E i \in 1..Len(events) : events[i].ledger_sequence = l
                /\ \A i \in 1..Len(events) : events[i].ledger_sequence <= l)

(***************************************************************************)
(* ReplayStorage and CheckpointManager                                     *)
(***************************************************************************)
save_metadata_InsertOnly(table, session_id, metadata) ==
    IF table[session_id] = <<>>
    THEN [table EXCEPT ![session_id] = Some(metadata)]
    ELSE table

\* ReplayStorage::save_metadata: INSERT ... ON CONFLICT (session_id) DO UPDATE
\* SET status, ended_at, checkpoint
save_metadata(table, session_id, metadata) ==
    IF table[session_id] = <<>>
    THEN [table EXCEPT ![session_id] = Some(metadata)]
    ELSE [table EXCEPT ![session_id] =
            Some([table[session_id][1] EXCEPT !.status = metadata.status,
                                             !.ended_at = metadata.ended_at,
                                             !.checkpoint = metadata.checkpoint])]

\* ReplayStorage::load_metadata
load_metadata(session_id) == sessions[session_id]

\* CheckpointManager::load
load(checkpoint_id) ==
    LET found == { i \in 1..Len(checkpoints) : checkpoints[i].id = checkpoint_id }
    IN IF found = {} THEN <<>> ELSE Some(checkpoints[CHOOSE i \in found : TRUE])

\* CheckpointManager::save: INSERT ... ON CONFLICT (id) DO UPDATE SET last_ledger,
\* events_processed, events_failed, state_snapshot, metadata
save(table, checkpoint) ==
    LET found == { i \in 1..Len(table) : table[i].id = checkpoint.id }
    IN IF found = {} THEN Append(table, checkpoint)
       ELSE [i \in 1..Len(table) |->
               IF i \in found
               THEN [table[i] EXCEPT !.last_ledger = checkpoint.last_ledger,
                                     !.events_processed = checkpoint.events_processed,
                                     !.events_failed = checkpoint.events_failed,
                                     !.state_snapshot = checkpoint.state_snapshot,
                                     !.metadata = checkpoint.metadata]
               ELSE table[i]]

(***************************************************************************)
(* process_with_retry / process_event_internal, one activation per caller  *)
(***************************************************************************)
NoEvent == MkEvent(0, 0, "B")
NoResult == [success |-> FALSE, error |-> None, state_changes |-> <<>>, skipped |-> FALSE]

\* attempts, last_error: the locals of process_with_retry; dry_run, timeout:
\* the fields of the ProcessingContext; proc: the position in the processor
\* list; held: the result waiting for mark_processed.
\* attempts_run, sleeps, process_calls, mark_calls, process_ok,
\* marked_at_start and timed_out (the last attempt ended by the timeout)
\* record what the activation did.
DispIdle ==
    [state |-> "idle", event |-> NoEvent, max_retries |-> 0, dry_run |-> FALSE,
     timeout |-> 0,
     attempts |-> 0, last_error |-> None, proc |-> 0, held |-> NoResult, ret |-> NoResult,
     attempts_run |-> 0, sleeps |-> <<>>, process_calls |-> 0, mark_calls |-> 0,
     process_ok |-> 0, marked_at_start |-> FALSE, timed_out |-> FALSE]

\* ProcessingContext::for_replay(session_id, dry_run)
for_replay(dry_run) == [dry_run |-> dry_run, timeout |-> 30]

\* entry of process_with_retry(event, context, max_retries)
NewDisp(event, context, max_retries) ==
    [DispIdle EXCEPT !.state = "loop", !.event = event, !.max_retries = max_retries,
                     !.dry_run = context.dry_run, !.timeout = context.timeout,
                     !.marked_at_start = (unique_id(event) \in processed_events)]

RetryCondition_OffByOne(attempts, max_retries) == attempts < max_retries \/ attempts = 0

\* the loop condition of process_with_retry
RetryCondition(attempts, max_retries) == attempts <= max_retries

\* the sleeps of one pass through the loop head
BackoffSleeps(attempts) == IF attempts > 0 THEN <<BackoffMs(attempts)>> ELSE <<>>

\* the match on the outcome of one attempt: Ok(Ok(result))
AttemptOk(d, result) ==
    IF result.success
    THEN [d EXCEPT !.state = "returned", !.ret = result]
    ELSE [d EXCEPT !.state = "loop", !.last_error = result.error, !.attempts = @ + 1]

\* Ok(Err(e))
AttemptErr(d, e) ==
    [d EXCEPT !.state = "loop", !.last_error = e, !.attempts = @ + 1]

AttemptTimeout_KeepsError(d) ==
    [d EXCEPT !.state = "loop", !.attempts = @ + 1]

\* Err(_): the timeout elapsed
AttemptTimeout(d) ==
    [d EXCEPT !.state = "loop", !.last_error = "Processing timeout", !.attempts = @ + 1]

\* head of the while loop: sleep before a retry and start the attempt, or
\* return the failure after the last attempt
RetryLoop(c) ==
    /\ disp[c].state = "loop"
    /\ IF RetryCondition(disp[c].attempts, disp[c].max_retries)
       THEN disp' = [disp EXCEPT ![c] =
                       [@ EXCEPT !.state = "check", !.proc = 1, !.timed_out = FALSE,
                                 !.sleeps = @ \o BackoffSleeps(disp[c].attempts),
                                 !.attempts_run = @ + 1]]
       ELSE disp' = [disp EXCEPT ![c] =
                       [@ EXCEPT !.state = "returned",
                                 !.ret = ResultFailure(IF disp[c].last_error = None
                                                       THEN "Unknown error"
                                                       ELSE disp[c].last_error)]]
    /\ UNCHANGED <<data_vars, store_vars, processed_events, snapshots, pc, eng>>

NoProcessorFound_Lowercase == ResultFailure("no processor found for event")

\* the result of process_event_internal when the loop over the processors ends
NoProcessorFound == ResultFailure("No processor found for event")

is_processed_Never(event) == FALSE

\* SnapshotEventProcessor::is_processed
is_processed(event) == unique_id(event) \in processed_events

\* for processor in &self.processors: idempotency check and validation
CheckProcessed(c) ==
    /\ disp[c].state = "check"
    /\ IF disp[c].proc > Len(processors)
       THEN disp' = [disp EXCEPT ![c] = AttemptOk(@, NoProcessorFound)]
       ELSE \E db_ok \in BOOLEAN :
              disp' = [disp EXCEPT ![c] =
                IF ~db_ok THEN AttemptErr(@, "database error")
                ELSE IF is_processed(disp[c].event) THEN AttemptOk(@, ResultSkipped)
                ELSE IF validate_event(disp[c].event) # None
                     THEN AttemptErr(@, validate_event(disp[c].event))
                ELSE [@ EXCEPT !.state = "process", !.process_calls = @ + 1]]
    /\ UNCHANGED <<data_vars, store_vars, processed_events, snapshots, pc, eng>>

\* SnapshotEventProcessor::process_event without its database accesses
SnapshotOutcome(p, event) ==
    IF event.event_type # p.handles THEN "unknown"
    ELSE IF ~event.has_data THEN "missing"
    ELSE IF event.id \in snapshots THEN "exists"
    ELSE "insert"

NeedsMark_Always(dry_run, result) == result.success

\* if !context.dry_run && result.success { mark_processed }
NeedsMark(dry_run, result) == ~dry_run /\ result.success

\* Ok(mut result) of process_event
AfterProcess(d, result) ==
    LET counted == [d EXCEPT !.process_ok = @ + (IF result.success THEN 1 ELSE 0)]
    IN IF NeedsMark(d.dry_run, result)
       THEN [counted EXCEPT !.state = "mark", !.held = result, !.mark_calls = @ + 1]
       ELSE AttemptOk(counted, result)

SnapshotChange(event) ==
    <<[change_type |-> "insert", entity_type |-> "snapshot", entity_id |-> event.id]>>

\* processor.process_event completes: a result, or an error after which the
\* next processor is tried
ProcessEvent(c) ==
    /\ disp[c].state = "process"
    /\ LET d == disp[c]
           out == SnapshotOutcome(processors[d.proc], d.event)
           next == [d EXCEPT !.state = "check", !.proc = @ + 1]
       IN \E db_ok \in BOOLEAN :
            CASE out = "unknown" ->
                   /\ db_ok
                   /\ disp' = [disp EXCEPT ![c] = AfterProcess(d, ResultFailure("Unknown event type"))]
                   /\ UNCHANGED snapshots
              [] out = "missing" ->
                   /\ db_ok
                   /\ disp' = [disp EXCEPT ![c] = next]
                   /\ UNCHANGED snapshots
              [] out = "exists" ->
                   /\ disp' = [disp EXCEPT ![c] = IF db_ok THEN AfterProcess(d, ResultSkipped) ELSE next]
                   /\ UNCHANGED snapshots
              [] out = "insert" ->
                   /\ disp' = [disp EXCEPT ![c] =
                                 IF db_ok THEN AfterProcess(d, ResultSuccess(SnapshotChange(d.event)))
                                 ELSE next]
                   /\ snapshots' = IF db_ok /\ ~d.dry_run THEN snapshots \cup {d.event.id}
                                   ELSE snapshots
    /\ UNCHANGED <<data_vars, store_vars, processed_events, pc, eng>>

\* processor.mark_processed completes
MarkProcessed(c) ==
    /\ disp[c].state = "mark"
    /\ \E db_ok \in BOOLEAN :
         /\ disp' = [disp EXCEPT ![c] = IF db_ok THEN AttemptOk(@, disp[c].held)
                                        ELSE AttemptErr(@, "database error")]
         /\ processed_events' = IF db_ok THEN processed_events \cup {unique_id(disp[c].event)}
                                ELSE processed_events
    /\ UNCHANGED <<data_vars, store_vars, snapshots, pc, eng>>

\* timeout(context.timeout, ...) elapses while the attempt is suspended; the
\* statement the attempt was waiting for may or may not have been executed
Timeout(c) ==
    /\ disp[c].state \in {"check", "process", "mark"}
    /\ disp[c].proc <= Len(processors)
    /\ disp' = [disp EXCEPT ![c] = [AttemptTimeout(@) EXCEPT !.timed_out = TRUE]]
    /\ \E executed \in BOOLEAN :
         /\ snapshots' = IF /\ executed
                            /\ disp[c].state = "process"
                            /\ ~disp[c].dry_run
                            /\ SnapshotOutcome(processors[disp[c].proc], disp[c].event) = "insert"
                         THEN snapshots \cup {disp[c].event.id}
                         ELSE snapshots
         /\ processed_events' = IF executed /\ disp[c].state = "mark"
                                THEN processed_events \cup {unique_id(disp[c].event)}
                                ELSE processed_events
    /\ UNCHANGED <<data_vars, store_vars, pc, eng>>

(***************************************************************************)
(* ReplayEngine (engine.rs)                                                *)
(***************************************************************************)
\* the engine a caller calls start() on, and the session_id that engine
\* generated in ReplayEngine::new
EngineOf(c) == IF same_engine THEN 1 ELSE c
SessionId(c) == EngineOf(c)

\* ReplayStatus
Pending == [tag |-> "Pending"]
InProgress(ledger, processed, failed) ==
    [tag |-> "InProgress", current_ledger |-> ledger,
     events_processed |-> processed, events_failed |-> failed]
Completed(processed, failed) ==
    [tag |-> "Completed", events_processed |-> processed, events_failed |-> failed]
Failed(error, ledger) == [tag |-> "Failed", error |-> error, last_ledger |-> ledger]

Terminal(status) == status.tag \in {"Completed", "Failed"}

NoReturn == [kind |-> "none", metadata |-> <<>>, error |-> None]
ReturnOk(metadata) == [kind |-> "Ok", metadata |-> Some(metadata), error |-> None]
ReturnErr(error) == [kind |-> "Err", metadata |-> <<>>, error |-> error]

\* the locals of start() and execute_replay(); dispatched, failed_ids,
\* skipped_ids, loop_error, last_in_progress, fetches, start_ledger,
\* store_failed and persist_calls record what the activation did;
\* pause_requested records that pause() was called and resume() was not yet
EngIdle ==
    [md |-> [status |-> Pending, started_at |-> 0, ended_at |-> <<>>, checkpoint |-> <<>>],
     end_ledger |-> 0, current_ledger |-> 0, batch_end |-> 0,
     total_processed |-> 0, total_failed |-> 0, batch |-> <<>>, idx |-> 0,
     ret |-> NoReturn,
     dispatched |-> <<>>, failed_ids |-> {}, loop_error |-> None,
     last_in_progress |-> <<>>, fetches |-> 0, start_ledger |-> <<>>,
     store_failed |-> FALSE, skipped_ids |-> {}, persist_calls |-> 0,
     pause_requested |-> FALSE]

get_current_ledger_NoLedger(metadata) ==
    IF metadata.status.tag = "Paused" THEN Some(metadata.status.last_ledger) ELSE <<>>

\* ReplayEngine::get_current_ledger
get_current_ledger(metadata) ==
    IF metadata.status.tag = "InProgress" THEN Some(metadata.status.current_ledger)
    ELSE IF metadata.status.tag = "Paused" THEN Some(metadata.status.last_ledger)
    ELSE <<>>

\* the Err(e) arm of start(): the status becomes Failed and the final save follows
Abort(c, e, error) ==
    /\ eng' = [eng EXCEPT ![c] =
                 [e EXCEPT !.md = [e.md EXCEPT !.status = Failed(error, get_current_ledger(e.md)),
                                               !.ended_at = Some(c)],
                           !.loop_error = error, !.store_failed = TRUE,
                           !.batch = <<>>, !.idx = 0]]
    /\ pc' = [pc EXCEPT ![c] = "save_final"]

\* start() returns through `?` without touching the stored status
ReturnEarly(c, error) ==
    /\ eng' = [eng EXCEPT ![c] = [@ EXCEPT !.ret = ReturnErr(error), !.store_failed = TRUE]]
    /\ pc' = [pc EXCEPT ![c] = "done"]

\* start(): the initial metadata is built and saved
Start(c) ==
    /\ pc[c] = "idle"
    /\ \A o \in Calls : o < c => pc[o] = "done"
    /\ LET metadata == [status |-> Pending, started_at |-> c, ended_at |-> <<>>,
                        checkpoint |-> <<>>]
       IN \E store_ok \in BOOLEAN :
            IF store_ok
            THEN /\ sessions' = save_metadata(sessions, SessionId(c), metadata)
                 /\ eng' = [eng EXCEPT ![c] = [EngIdle EXCEPT !.md = metadata]]
                 /\ pc' = [pc EXCEPT ![c] = "range"]
            ELSE /\ ReturnEarly(c, "StorageError")
                 /\ UNCHANGED sessions
    /\ UNCHANGED <<data_vars, checkpoints, state_builder, sink, processed_events,
                   snapshots, disp>>

\* ReplayEngine::determine_ledger_range, given what the stores answered
determine_ledger_range(range, latest, loaded) ==
    LET latest_ledger == unwrap_or(latest, 0)
        checkpoint_ledger == IF loaded = <<>> THEN <<>> ELSE Some(loaded[1].last_ledger)
    IN [start |-> unwrap_or(start_ledger(range, latest_ledger, checkpoint_ledger), 0),
        end |-> unwrap_or(end_ledger(range, latest_ledger), latest_ledger)]

\* start(): the range is resolved and the InProgress status is saved
ResolveRange(c) ==
    /\ pc[c] = "range"
    /\ \E latest_ok \in BOOLEAN, load_ok \in BOOLEAN, store_ok \in BOOLEAN :
         LET loaded == IF config.range.tag = "FromCheckpoint"
                       THEN load(config.range.checkpoint_id) ELSE <<>>
             r == determine_ledger_range(config.range, get_latest_ledger, loaded)
             status == InProgress(r.start, 0, 0)
             metadata == [eng[c].md EXCEPT !.status = status]
         IN IF ~latest_ok \/ (config.range.tag = "FromCheckpoint" /\ ~load_ok)
            THEN /\ ReturnEarly(c, "range")
                 /\ UNCHANGED sessions
            ELSE IF ~store_ok
            THEN /\ ReturnEarly(c, "StorageError")
                 /\ UNCHANGED sessions
            ELSE /\ sessions' = save_metadata(sessions, SessionId(c), metadata)
                 /\ eng' = [eng EXCEPT ![c] =
                              [@ EXCEPT !.md = metadata, !.start_ledger = Some(r.start),
                                        !.end_ledger = r.end, !.current_ledger = r.start,
                                        !.last_in_progress = Some(r.start)]]
                 /\ pc' = [pc EXCEPT ![c] = "fetch"]
    /\ UNCHANGED <<data_vars, checkpoints, state_builder, sink, processed_events,
                   snapshots, disp>>

\* batch_end = (current_ledger + batch_size - 1).min(end_ledger)
BatchEnd(current, batch_size, end) ==
    IF current + batch_size - 1 < end THEN current + batch_size - 1 ELSE end

\* execute_replay: the loop condition holds and the batch is fetched
FetchBatch(c) ==
    /\ pc[c] = "fetch"
    /\ eng[c].current_ledger <= eng[c].end_ledger
    /\ LET e == eng[c]
           batch_end == BatchEnd(e.current_ledger, config.batch_size, e.end_ledger)
       IN \E store_ok \in BOOLEAN :
            IF store_ok
            THEN /\ eng' = [eng EXCEPT ![c] =
                              [e EXCEPT !.batch_end = batch_end,
                                        !.batch = get_events_in_range(e.current_ledger, batch_end,
                                                     config.filter, Some(config.batch_size)),
                                        !.idx = 1, !.fetches = @ + 1]]
                 /\ pc' = [pc EXCEPT ![c] = "events"]
            ELSE Abort(c, e, "Failed to fetch events")
    /\ UNCHANGED <<data_vars, store_vars, processed_events, snapshots, disp>>

\* for event in &events: process_with_retry is called
NextEvent(c) ==
    /\ pc[c] = "events"
    /\ eng[c].idx <= Len(eng[c].batch)
    /\ LET event == eng[c].batch[eng[c].idx]
       IN /\ disp' = [disp EXCEPT ![c] = NewDisp(event, for_replay(config.dry_run), config.max_retries)]
          /\ eng' = [eng EXCEPT ![c] = [@ EXCEPT !.dispatched = Append(@, event.id)]]
    /\ pc' = [pc EXCEPT ![c] = "processing"]
    /\ UNCHANGED <<data_vars, store_vars, processed_events, snapshots>>

Applies_UnlessSkipped(mode, result) ==
    result.success /\ ~result.skipped /\ mode \in {"Full", "Verification"}

\* the engine applies the event of a result to the state builder
Applies(mode, result) ==
    result.success /\ mode \in {"Full", "Verification"}

\* StateBuilder::apply_event
apply_event(state, event) == Append(state, event.id)

\* the match on the result of process_event in execute_replay
HandleResult(c) ==
    /\ pc[c] = "processing"
    /\ disp[c].state = "returned"
    /\ LET result == disp[c].ret
           event == disp[c].event
       IN /\ eng' = [eng EXCEPT ![c] =
                       [@ EXCEPT !.total_processed = @ + (IF result.success THEN 1 ELSE 0),
                                 !.total_failed = @ + (IF result.success THEN 0 ELSE 1),
                                 !.failed_ids = IF result.success THEN @ ELSE @ \cup {event.id},
                                 !.skipped_ids = IF result.skipped THEN @ \cup {event.id} ELSE @,
                                 !.idx = @ + 1]]
          /\ state_builder' =
               IF Applies(config.mode, result)
               THEN [state_builder EXCEPT ![EngineOf(c)] = apply_event(@, event)]
               ELSE state_builder
    /\ disp' = [disp EXCEPT ![c] = DispIdle]
    /\ pc' = [pc EXCEPT ![c] = "events"]
    /\ UNCHANGED <<data_vars, sessions, checkpoints, sink, processed_events, snapshots>>

\* StateBuilder::state().to_json()
to_json(state) == state

NewCheckpoint_NoStats(c, ledger, processed, failed) ==
    [id |-> Len(checkpoints) + 1, session_id |-> SessionId(c), last_ledger |-> ledger,
     events_processed |-> 0, events_failed |-> 0,
     state_snapshot |-> to_json(state_builder[EngineOf(c)]),
     metadata |-> config.mode, created_at |-> Len(checkpoints) + 1]

\* the checkpoint built by create_checkpoint
NewCheckpoint(c, ledger, processed, failed) ==
    [id |-> Len(checkpoints) + 1, session_id |-> SessionId(c), last_ledger |-> ledger,
     events_processed |-> processed, events_failed |-> failed,
     state_snapshot |-> to_json(state_builder[EngineOf(c)]),
     metadata |-> config.mode, created_at |-> Len(checkpoints) + 1]

\* if current_ledger % self.config.checkpoint_interval == 0
CheckpointDue(current_ledger, checkpoint_interval) ==
    current_ledger % checkpoint_interval = 0

\* execute_replay: the end of a batch: current_ledger advances, the status is
\* updated, a checkpoint is created when due and the metadata is saved
EndBatch(c) ==
    /\ pc[c] = "events"
    /\ eng[c].idx > Len(eng[c].batch)
    /\ LET current_ledger == eng[c].batch_end + 1
           status == InProgress(current_ledger, eng[c].total_processed, eng[c].total_failed)
           due == CheckpointDue(current_ledger, config.checkpoint_interval)
           checkpoint == NewCheckpoint(c, current_ledger, eng[c].total_processed,
                                       eng[c].total_failed)
           e1 == [eng[c] EXCEPT !.current_ledger = current_ledger,
                                !.md = [@ EXCEPT !.status = status],
                                !.last_in_progress = Some(current_ledger),
                                !.batch = <<>>, !.idx = 0]
           e2 == IF due THEN [e1 EXCEPT !.md = [@ EXCEPT !.checkpoint = Some(checkpoint)]]
                 ELSE e1
       IN \E checkpoint_ok \in BOOLEAN, store_ok \in BOOLEAN :
            IF due /\ ~checkpoint_ok
            THEN /\ Abort(c, e1, "Failed to save checkpoint")
                 /\ UNCHANGED <<sessions, checkpoints>>
            ELSE IF ~store_ok
            THEN /\ Abort(c, e2, "Failed to save replay metadata")
                 /\ checkpoints' = IF due THEN save(checkpoints, checkpoint) ELSE checkpoints
                 /\ UNCHANGED sessions
            ELSE /\ eng' = [eng EXCEPT ![c] = e2]
                 /\ checkpoints' = IF due THEN save(checkpoints, checkpoint) ELSE checkpoints
                 /\ sessions' = save_metadata(sessions, SessionId(c), e2.md)
                 /\ pc' = [pc EXCEPT ![c] = "fetch"]
    /\ UNCHANGED <<data_vars, state_builder, sink, processed_events, snapshots, disp>>

\* execute_replay after the loop: the final checkpoint, persist_state, and the
\* Ok arm of start()
Finish(c) ==
    /\ pc[c] = "fetch"
    /\ eng[c].current_ledger > eng[c].end_ledger
    /\ LET e == eng[c]
           checkpoint == NewCheckpoint(c, e.end_ledger, e.total_processed, e.total_failed)
           e1 == [e EXCEPT !.md = [@ EXCEPT !.checkpoint = Some(checkpoint)]]
           done == [e1 EXCEPT !.md = [@ EXCEPT !.status = Completed(e.total_processed,
                                                                    e.total_failed),
                                               !.ended_at = Some(c)],
                              !.persist_calls = @ + (IF config.dry_run THEN 0 ELSE 1)]
       IN \E checkpoint_ok \in BOOLEAN, sink_ok \in BOOLEAN :
            IF ~checkpoint_ok
            THEN /\ Abort(c, e, "Failed to save checkpoint")
                 /\ UNCHANGED <<checkpoints, sink>>
            ELSE IF ~config.dry_run /\ ~sink_ok
            THEN /\ Abort(c, [e1 EXCEPT !.persist_calls = @ + 1], "Failed to persist state")
                 /\ checkpoints' = save(checkpoints, checkpoint)
                 /\ UNCHANGED sink
            ELSE /\ eng' = [eng EXCEPT ![c] = done]
                 /\ checkpoints' = save(checkpoints, checkpoint)
                 /\ sink' = IF config.dry_run THEN sink
                            ELSE [sink EXCEPT ![EngineOf(c)] = Some(state_builder[EngineOf(c)])]
                 /\ pc' = [pc EXCEPT ![c] = "save_final"]
    /\ UNCHANGED <<data_vars, sessions, state_builder, processed_events, snapshots, disp>>

\* start(): the final metadata is saved and start() returns
FinalSave(c) ==
    /\ pc[c] = "save_final"
    /\ \E store_ok \in BOOLEAN :
         IF store_ok
         THEN /\ sessions' = save_metadata(sessions, SessionId(c), eng[c].md)
              /\ eng' = [eng EXCEPT ![c] = [@ EXCEPT !.ret = ReturnOk(eng[c].md)]]
         ELSE /\ eng' = [eng EXCEPT ![c] = [@ EXCEPT !.ret = ReturnErr("StorageError"),
                                                   !.store_failed = TRUE]]
              /\ UNCHANGED sessions
    /\ pc' = [pc EXCEPT ![c] = "done"]
    /\ UNCHANGED <<data_vars, checkpoints, state_builder, sink, processed_events,
                   snapshots, disp>>

\* ReplayEngine::get_status
get_status(c) == load_metadata(SessionId(c))

\* ReplayEngine::pause, called while start() is running: logs and returns Ok
Pause(c) ==
    /\ pc[c] \in {"fetch", "events", "processing"}
    /\ ~eng[c].pause_requested
    /\ eng' = [eng EXCEPT ![c] = [@ EXCEPT !.pause_requested = TRUE]]
    /\ UNCHANGED <<data_vars, store_vars, processed_events, snapshots, pc, disp>>

\* ReplayEngine::resume: logs and returns Ok
Resume(c) ==
    /\ pc[c] \in {"fetch", "events", "processing"}
    /\ eng[c].pause_requested
    /\ eng' = [eng EXCEPT ![c] = [@ EXCEPT !.pause_requested = FALSE]]
    /\ UNCHANGED <<data_vars, store_vars, processed_events, snapshots, pc, disp>>

(***************************************************************************)
(* Initial states and specifications                                       *)
(***************************************************************************)
Modes == {"Full", "Incremental"}
Ranges == {RangeAll, RangeFrom(1), RangeFromTo(0, 1), RangeFromCheckpoint(1),
           RangeFromCheckpoint(1000), RangeLast(1)}
BatchSizes == {1, 2}
Intervals == {2}
EngineRetries == {0, 1}

Configs ==
    { [mode |-> m, range |-> r, filter |-> NoFilter, batch_size |-> b, max_workers |-> 4,
       dry_run |-> d, verbose |-> FALSE, checkpoint_interval |-> i,
       event_timeout_secs |-> 30, max_retries |-> x] :
        m \in Modes, r \in Ranges, b \in BatchSizes, d \in BOOLEAN, i \in Intervals,
        x \in EngineRetries }

\* ReplayConfig::default()
DefaultConfig ==
    [mode |-> "Full", range |-> RangeAll, filter |-> NoFilter, batch_size |-> 100,
     max_workers |-> 4, dry_run |-> FALSE, verbose |-> FALSE, checkpoint_interval |-> 1000,
     event_timeout_secs |-> 30, max_retries |-> 3]

\* a checkpoint left by an earlier session
OldCheckpoint ==
    [id |-> 1, session_id |-> 0, last_ledger |-> 1, events_processed |-> 0,
     events_failed |-> 0, state_snapshot |-> <<>>, metadata |-> "Full", created_at |-> 1]

\* no ReplayRange function has been called directly
NoProbe ==
    [range |-> RangeAll, latest |-> 0, checkpoint_ledger |-> <<>>, ledger |-> 0,
     start |-> <<>>, end |-> <<>>, contains |-> FALSE, computed |-> {}]

InitStores ==
    /\ probe = NoProbe
    /\ snapshots = {}
    /\ sessions = [s \in Calls |-> <<>>]
    /\ checkpoints = <<OldCheckpoint>>
    /\ state_builder = [e \in Calls |-> <<>>]
    /\ sink = [e \in Calls |-> <<>>]
    /\ eng = [c \in Calls |-> EngIdle]
    /\ disp = [c \in Calls |-> DispIdle]

\* the configs of the single-call scenario: every mode, range, batch size and
\* dry-run setting without retries, and retries on one bounded range (the retry
\* loop itself is explored under SpecRetry)
EngineConfigs ==
    { cf \in Configs :
        /\ validate(cf) = None
        /\ cf.max_retries > 0 => (cf.range = RangeFromTo(0, 1) /\ cf.batch_size = 2) }

\* one engine, constructed with a valid config, on which start() is called once
Init ==
    /\ events \in Stores
    /\ processors \in ProcessorLists
    /\ config \in EngineConfigs
    /\ same_engine = FALSE
    /\ pc = [c \in Calls |-> IF c = 1 THEN "idle" ELSE "off"]
    /\ processed_events = {}
    /\ InitStores

Next ==
    \/ \E c \in Calls : Start(c)
    \/ \E c \in Calls : ResolveRange(c)
    \/ \E c \in Calls : FetchBatch(c)
    \/ \E c \in Calls : NextEvent(c)
    \/ \E c \in Calls : RetryLoop(c)
    \/ \E c \in Calls : CheckProcessed(c)
    \/ \E c \in Calls : ProcessEvent(c)
    \/ \E c \in Calls : MarkProcessed(c)
    \/ \E c \in Calls : Timeout(c)
    \/ \E c \in Calls : HandleResult(c)
    \/ \E c \in Calls : EndBatch(c)
    \/ \E c \in Calls : Finish(c)
    \/ \E c \in Calls : FinalSave(c)

Spec == Init /\ [][Next]_vars

\* start() is called twice, the second call after the first has returned:
\* on the same engine, or on a second engine constructed with the same config
InitTwice ==
    /\ events \in Stores
    /\ processors = <<SnapshotEventProcessor>>
    /\ config \in { cf \in Configs : /\ validate(cf) = None
                                     /\ cf.mode = "Full" /\ ~cf.dry_run
                                     /\ cf.range = RangeFromTo(0, 1)
                                     /\ cf.max_retries = 0 }
    /\ same_engine \in BOOLEAN
    /\ pc = [c \in Calls |-> "idle"]
    /\ processed_events = {}
    /\ InitStores

SpecTwice == InitTwice /\ [][Next]_vars

(***************************************************************************)
(* The dispatcher used directly: a caller invokes process_with_retry on    *)
(* a stored event, any number of times, with any retry budget.             *)
(***************************************************************************)
Invoke(c) ==
    /\ pc[c] = "direct"
    /\ disp[c].state \in {"idle", "returned"}
    /\ \E i \in StoredIds, dry_run \in BOOLEAN, max_retries \in 0..MaxRetries :
         disp' = [disp EXCEPT ![c] = NewDisp(EventById(i), for_replay(dry_run), max_retries)]
    /\ UNCHANGED <<data_vars, store_vars, processed_events, snapshots, pc, eng>>

InitRetry ==
    /\ events \in { s \in Stores : Len(s) = 1 }
    /\ processors \in ProcessorLists
    /\ config = DefaultConfig
    /\ same_engine = FALSE
    /\ pc = [c \in Calls |-> IF c = 1 THEN "direct" ELSE "off"]
    /\ processed_events \in SUBSET StoredIds
    /\ InitStores

NextRetry ==
    \/ \E c \in Calls : Invoke(c)
    \/ \E c \in Calls : RetryLoop(c)
    \/ \E c \in Calls : CheckProcessed(c)
    \/ \E c \in Calls : ProcessEvent(c)
    \/ \E c \in Calls : MarkProcessed(c)
    \/ \E c \in Calls : Timeout(c)

SpecRetry == InitRetry /\ [][NextRetry]_vars

(***************************************************************************)
(* Construction: ReplayEngine::new is called with any config, valid or     *)
(* not, and start() is called on the engine it returns.                    *)
(***************************************************************************)
\* ReplayEngine::new(config, ...): Err(ConfigError(e)) and no engine, or the engine
New(c) ==
    /\ pc[c] = "new"
    /\ IF new(config) = None
       THEN /\ pc' = [pc EXCEPT ![c] = "idle"]
            /\ UNCHANGED eng
       ELSE /\ pc' = [pc EXCEPT ![c] = "rejected"]
            /\ eng' = [eng EXCEPT ![c] = [@ EXCEPT !.ret = ReturnErr(new(config))]]
    /\ UNCHANGED <<data_vars, store_vars, processed_events, snapshots, disp>>

\* the settings new() is called with: each validated setting valid or zero, a
\* single-ledger range, an inverted range and an empty checkpoint id
NewConfigs ==
    { [mode |-> "Full", range |-> r, filter |-> NoFilter, batch_size |-> b,
       max_workers |-> w, dry_run |-> FALSE, verbose |-> FALSE, checkpoint_interval |-> i,
       event_timeout_secs |-> t, max_retries |-> 0] :
        r \in {RangeFromTo(1, 1), RangeFromTo(2, 1), RangeFromCheckpoint(0)},
        b \in {0, 2}, w \in {0, 4}, i \in {0, 1}, t \in {0, 60} }
    \cup {DefaultConfig}

InitNew ==
    /\ events \in Stores
    /\ processors = <<SnapshotEventProcessor>>
    /\ config \in NewConfigs
    /\ same_engine = FALSE
    /\ pc = [c \in Calls |-> IF c = 1 THEN "new" ELSE "off"]
    /\ processed_events = {}
    /\ InitStores

NextNew ==
    \/ \E c \in Calls : New(c)
    \/ Next

SpecNew == InitNew /\ [][NextNew]_vars

(***************************************************************************)
(* The ReplayRange functions called directly on any range                  *)
(***************************************************************************)
RangeParams == (0..MaxLedger) \cup {100, 200}
LatestInputs == (0..MaxLedger) \cup {1000}
LedgerInputs == (0..MaxLedger) \cup {50, 150, 250}

RangeInputs ==
    {RangeAll, RangeFromCheckpoint(1)}
    \cup { RangeFrom(s) : s \in RangeParams }
    \cup { RangeTo(e) : e \in RangeParams }
    \cup { RangeFromTo(s, e) : s \in RangeParams, e \in RangeParams }
    \cup { RangeLast(n) : n \in RangeParams }

\* range.start_ledger(latest, checkpoint_ledger)
CallStartLedger ==
    /\ "start" \notin probe.computed
    /\ probe' = [probe EXCEPT
                   !.start = start_ledger(probe.range, probe.latest, probe.checkpoint_ledger),
                   !.computed = @ \cup {"start"}]
    /\ UNCHANGED <<events, processors, config, same_engine, store_vars,
                   processed_events, snapshots, pc, eng, disp>>

\* range.end_ledger(latest)
CallEndLedger ==
    /\ "end" \notin probe.computed
    /\ probe' = [probe EXCEPT !.end = end_ledger(probe.range, probe.latest),
                              !.computed = @ \cup {"end"}]
    /\ UNCHANGED <<events, processors, config, same_engine, store_vars,
                   processed_events, snapshots, pc, eng, disp>>

\* range.contains(ledger, latest, checkpoint_ledger)
CallContains ==
    /\ "contains" \notin probe.computed
    /\ probe' = [probe EXCEPT
                   !.contains = contains(probe.range, probe.ledger, probe.latest,
                                         probe.checkpoint_ledger),
                   !.computed = @ \cup {"contains"}]
    /\ UNCHANGED <<events, processors, config, same_engine, store_vars,
                   processed_events, snapshots, pc, eng, disp>>

InitRange ==
    /\ probe \in { [NoProbe EXCEPT !.range = r, !.latest = l, !.checkpoint_ledger = k,
                                    !.ledger = g] :
                      r \in RangeInputs, l \in LatestInputs,
                      k \in {<<>>} \cup { Some(x) : x \in Ledgers }, g \in LedgerInputs }
    /\ events = <<>>
    /\ processors = <<>>
    /\ config = DefaultConfig
    /\ same_engine = FALSE
    /\ pc = [c \in Calls |-> "off"]
    /\ processed_events = {}
    /\ snapshots = {}
    /\ sessions = [s \in Calls |-> <<>>]
    /\ checkpoints = <<>>
    /\ state_builder = [e \in Calls |-> <<>>]
    /\ sink = [e \in Calls |-> <<>>]
    /\ eng = [c \in Calls |-> EngIdle]
    /\ disp = [c \in Calls |-> DispIdle]

NextRange == CallStartLedger \/ CallEndLedger \/ CallContains

SpecRange == InitRange /\ [][NextRange]_vars

(***************************************************************************)
(* CheckpointManager::save and load called directly: save(c) over any      *)
(* prior content of the checkpoint store, then load(c.id).                 *)
(***************************************************************************)
CheckpointInputs ==
    [id : {1, 2}, session_id : {0, 1}, last_ledger : Ledgers, events_processed : {0, 1},
     events_failed : {0, 1}, state_snapshot : {<<>>, <<1>>}, metadata : {"Full", "Debug"},
     created_at : {1, 2}]

\* the checkpoint store before the call
PriorCheckpoints == {<<>>, <<OldCheckpoint>>, <<OldCheckpoint, [OldCheckpoint EXCEPT !.id = 2]>>}

\* checkpoint_manager.save(&c) returns Ok
CallSave ==
    /\ probe.step = "init"
    /\ checkpoints' = save(checkpoints, probe.arg)
    /\ probe' = [probe EXCEPT !.step = "saved"]
    /\ UNCHANGED <<events, processors, config, same_engine, sessions, state_builder, sink,
                   processed_events, snapshots, pc, eng, disp>>

\* checkpoint_manager.load(&c.id) returns Ok(loaded)
CallLoad ==
    /\ probe.step = "saved"
    /\ probe' = [probe EXCEPT !.step = "loaded", !.loaded = load(probe.arg.id)]
    /\ UNCHANGED <<events, processors, config, same_engine, store_vars,
                   processed_events, snapshots, pc, eng, disp>>

\* every variable of the engine at rest
InitIdle ==
    /\ processors = <<>>
    /\ config = DefaultConfig
    /\ same_engine = FALSE
    /\ pc = [c \in Calls |-> "off"]
    /\ processed_events = {}
    /\ snapshots = {}
    /\ sessions = [s \in Calls |-> <<>>]
    /\ state_builder = [e \in Calls |-> <<>>]
    /\ sink = [e \in Calls |-> <<>>]
    /\ eng = [c \in Calls |-> EngIdle]
    /\ disp = [c \in Calls |-> DispIdle]

InitCheckpoint ==
    /\ probe \in [arg : CheckpointInputs, loaded : {<<>>}, step : {"init"}]
    /\ checkpoints \in PriorCheckpoints
    /\ events = <<>>
    /\ InitIdle

NextCheckpoint == CallSave \/ CallLoad

SpecCheckpoint == InitCheckpoint /\ [][NextCheckpoint]_vars

(***************************************************************************)
(* EventStorage::get_events_in_range called directly with any filter       *)
(***************************************************************************)
FilterInputs ==
    [contract_ids : {<<>>, <<{"C1"}>>, <<{"C2"}>>},
     event_types : {<<>>, <<{"snapshot_submitted"}>>},
     network : {<<>>, <<"testnet">>}]

\* event_storage.get_events_in_range(start, end, &filter, limit) returns Ok(rows)
CallGetEvents ==
    /\ probe.step = "init"
    /\ probe' = [probe EXCEPT !.step = "returned",
                              !.result = get_events_in_range(probe.start, probe.end,
                                                             probe.filter, probe.limit)]
    /\ UNCHANGED <<events, processors, config, same_engine, store_vars,
                   processed_events, snapshots, pc, eng, disp>>

\* event_storage.count_events_in_range(start, end, &filter) returns Ok(count)
CallCount ==
    /\ probe.count = <<>>
    /\ probe' = [probe EXCEPT !.count = Some(count_events_in_range(probe.start, probe.end,
                                                                    probe.filter))]
    /\ UNCHANGED <<events, processors, config, same_engine, store_vars,
                   processed_events, snapshots, pc, eng, disp>>

InitQuery ==
    /\ events \in Stores
    /\ probe \in [start : Ledgers, end : Ledgers, filter : FilterInputs,
                   limit : {<<>>, <<1>>}, result : {<<>>}, step : {"init"}, count : {<<>>}]
    /\ checkpoints = <<>>
    /\ InitIdle

NextQuery == CallGetEvents \/ CallCount

SpecQuery == InitQuery /\ [][NextQuery]_vars

(***************************************************************************)
(* A session over a range that spans two batches, in Full or Debug mode,   *)
(* during which pause() and resume() may be called.                        *)
(***************************************************************************)
ControlConfigs ==
    { [mode |-> m, range |-> RangeFromTo(1, 4), filter |-> NoFilter, batch_size |-> 2,
       max_workers |-> 4, dry_run |-> d, verbose |-> FALSE, checkpoint_interval |-> 2,
       event_timeout_secs |-> 30, max_retries |-> 0] : m \in {"Full", "Debug"}, d \in BOOLEAN }

InitControl ==
    /\ events \in Stores
    /\ processors = <<SnapshotEventProcessor>>
    /\ config \in ControlConfigs
    /\ same_engine = FALSE
    /\ pc = [c \in Calls |-> IF c = 1 THEN "idle" ELSE "off"]
    /\ processed_events = {}
    /\ InitStores

NextControl ==
    \/ \E c \in Calls : Pause(c)
    \/ \E c \in Calls : Resume(c)
    \/ Next

SpecControl == InitControl /\ [][NextControl]_vars

(***************************************************************************)
(* rpc::error::retry_with_backoff, called with an operation whose outcome  *)
(* at each call is any of Ok and the RpcError variants.  Durations are in  *)
(* whole seconds.                                                          *)
(***************************************************************************)
RpcErr(tag, retry_after_, status) == [tag |-> tag, retry_after |-> retry_after_, status |-> status]

RpcOk == RpcErr("Ok", <<>>, 0)

\* the RpcError values the operation may return
RpcErrors ==
    { RpcErr("NetworkError", <<>>, 0), RpcErr("RateLimitError", <<>>, 0),
      RpcErr("RateLimitError", Some(3), 0), RpcErr("ServerError", <<>>, 503),
      RpcErr("ServerError", <<>>, 404), RpcErr("ParseError", <<>>, 0),
      RpcErr("TimeoutError", <<>>, 0), RpcErr("CircuitBreakerOpen", <<>>, 0) }

\* std::cmp::min
min(a, b) == IF a <= b THEN a ELSE b

\* RpcError::is_retryable
is_retryable(e) ==
    \/ e.tag \in {"NetworkError", "TimeoutError"}
    \/ e.tag = "ServerError" /\ 500 <= e.status /\ e.status <= 599

\* RpcError::retry_after
retry_after(e) == IF e.tag = "RateLimitError" THEN e.retry_after ELSE <<>>

\* one iteration of the loop of retry_with_backoff: call the operation and
\* return, or sleep and go round again
RetryWithBackoff ==
    /\ probe.state = "calling"
    /\ \E r \in {RpcOk} \cup RpcErrors :
         probe' =
           IF r = RpcOk
           THEN [probe EXCEPT !.calls = @ + 1, !.last = r, !.state = "returned", !.ret = r]
           ELSE IF is_retryable(r) /\ probe.attempt < probe.max_retries
           THEN [probe EXCEPT
                   !.calls = @ + 1, !.last = r,
                   !.attempt = @ + 1,
                   !.sleeps = Append(@, IF retry_after(r) # <<>> THEN retry_after(r)[1]
                                        ELSE min(probe.backoff, probe.max_backoff)),
                   !.backoff = min(probe.backoff * 2, probe.max_backoff)]
           ELSE [probe EXCEPT !.calls = @ + 1, !.last = r, !.state = "returned", !.ret = r]
    /\ UNCHANGED <<events, processors, processed_events, snapshots, config, same_engine,
                   store_vars, pc, eng, disp>>

InitRpc ==
    /\ InitIdle
    /\ events = <<>>
    /\ checkpoints = <<>>
    /\ probe \in { [max_retries |-> m, initial_backoff |-> i, max_backoff |-> x,
                     attempt |-> 0, backoff |-> i, sleeps |-> <<>>, calls |-> 0,
                     last |-> RpcOk, state |-> "calling", ret |-> RpcOk] :
                        m \in 0..MaxRetries, i \in {1, 2, 5}, x \in {4, 8} }

NextRpc == RetryWithBackoff

SpecRpc == InitRpc /\ [][NextRpc]_vars

(***************************************************************************)
(* Resumption: a Full-mode replay of ledgers 0..2 in batches of two        *)
(* ledgers; when it has ended Failed, a second engine is constructed with  *)
(* range FromCheckpoint{id of the first session's most recent checkpoint}  *)
(* and started.                                                            *)
(***************************************************************************)
ResumeConfig ==
    [mode |-> "Full", range |-> RangeFromTo(0, 2), filter |-> NoFilter, batch_size |-> 2,
     max_workers |-> 4, dry_run |-> FALSE, verbose |-> FALSE, checkpoint_interval |-> 2,
     event_timeout_secs |-> 30, max_retries |-> 0]

\* ReplayEngine::new for the resuming session c, given the checkpoint id the
\* caller read from the interrupted session
NewFromCheckpoint(c) ==
    /\ pc[c] = "off"
    /\ c > 1 /\ pc[c - 1] = "done"
    /\ sessions[SessionId(c - 1)] # <<>>
    /\ sessions[SessionId(c - 1)][1].status.tag = "Failed"
    /\ LET mine == { i \in 1..Len(checkpoints) :
                      checkpoints[i].session_id = SessionId(c - 1) }
           recent == CHOOSE i \in mine : \A j \in mine : j <= i
           cfg == [config EXCEPT !.range = RangeFromCheckpoint(checkpoints[recent].id)]
       IN /\ mine # {}
          /\ new(cfg) = None
          /\ config' = cfg
          /\ pc' = [pc EXCEPT ![c] = "idle"]
    /\ UNCHANGED <<events, processors, same_engine, probe, store_vars, processed_events,
                   snapshots, eng, disp>>

InitResume ==
    /\ events \in Stores
    /\ processors = <<SnapshotEventProcessor>>
    /\ config = ResumeConfig
    /\ same_engine = FALSE
    /\ pc = [c \in Calls |-> IF c = 1 THEN "idle" ELSE "off"]
    /\ processed_events = {}
    /\ InitStores

NextResume ==
    \/ \E c \in Calls : NewFromCheckpoint(c)
    \/ Next

SpecResume == InitResume /\ [][NextResume]_vars

(***************************************************************************)
(* Two sessions dispatch stored events concurrently, not dry-run, through  *)
(* the same processors and the same processed-marker store.                *)
(***************************************************************************)
\* the call of process_with_retry made by the batch loop of session c
Dispatch(c) ==
    /\ pc[c] = "direct"
    /\ disp[c].state = "idle"
    /\ \E i \in StoredIds :
         disp' = [disp EXCEPT ![c] = NewDisp(EventById(i), for_replay(FALSE), config.max_retries)]
    /\ UNCHANGED <<data_vars, store_vars, processed_events, snapshots, pc, eng>>

InitConcurrent ==
    /\ events \in { s \in Stores : Len(s) >= 1 }
    /\ processors = <<SnapshotEventProcessor>>
    /\ config \in { [DefaultConfig EXCEPT !.max_retries = r] : r \in {0, 1} }
    /\ same_engine = FALSE
    /\ pc = [c \in Calls |-> "direct"]
    /\ processed_events = {}
    /\ InitStores

NextConcurrent ==
    \/ \E c \in Calls : Dispatch(c)
    \/ \E c \in Calls : RetryLoop(c)
    \/ \E c \in Calls : CheckProcessed(c)
    \/ \E c \in Calls : ProcessEvent(c)
    \/ \E c \in Calls : MarkProcessed(c)
    \/ \E c \in Calls : Timeout(c)

SpecConcurrent == InitConcurrent /\ [][NextConcurrent]_vars

(***************************************************************************)
(* The ledger arithmetic of the batch loop of execute_replay on u64, at    *)
(* both ends of the type.  A u64 is written Lo(n) for the value n and      *)
(* Hi(d) for the value u64::MAX - d, with n and d small.  An overflowing   *)
(* operation panics in a build with overflow checks (debug) and wraps      *)
(* around in a build without them (release).                               *)
(***************************************************************************)
Lo(n) == [hi |-> FALSE, v |-> n]
Hi(d) == [hi |-> TRUE, v |-> d]

\* x <= y on u64
Le(x, y) ==
    IF x.hi = y.hi THEN (IF x.hi THEN x.v >= y.v ELSE x.v <= y.v) ELSE ~x.hi

\* x + k on u64 overflows
AddOverflows(x, k) == x.hi /\ k > x.v

\* x + k modulo 2^64
wrapping_add(x, k) ==
    IF ~x.hi THEN Lo(x.v + k)
    ELSE IF k <= x.v THEN Hi(x.v - k)
    ELSE Lo(k - x.v - 1)

\* x - k on u64 overflows
SubOverflows(x, k) == ~x.hi /\ k > x.v

\* x - k modulo 2^64
wrapping_sub(x, k) ==
    IF x.hi THEN Hi(x.v + k)
    ELSE IF k <= x.v THEN Lo(x.v - k)
    ELSE Hi(k - x.v - 1)

\* the bound on the iterations explored after current_ledger wrapped around
LoopCap == MaxLedger + 4

\* one iteration of `while current_ledger <= end_ledger`: batch_end =
\* (current_ledger + batch_size - 1).min(end_ledger); current_ledger =
\* batch_end + 1
LoopIteration ==
    /\ probe.state = "loop"
    /\ probe.iterations < LoopCap
    /\ LET cur == probe.current_ledger
           sum == wrapping_add(cur, probe.batch_size)
           last == wrapping_sub(sum, 1)
           batch_end == IF Le(last, probe.end_ledger) THEN last ELSE probe.end_ledger
           overflow == \/ AddOverflows(cur, probe.batch_size)
                       \/ SubOverflows(sum, 1)
                       \/ AddOverflows(batch_end, 1)
       IN probe' =
            IF ~Le(cur, probe.end_ledger) THEN [probe EXCEPT !.state = "done"]
            ELSE IF overflow /\ probe.build = "debug" THEN [probe EXCEPT !.state = "panicked"]
            ELSE [probe EXCEPT !.current_ledger = wrapping_add(batch_end, 1),
                               !.batch_end = batch_end,
                               !.iterations = @ + 1]
    /\ UNCHANGED <<events, processors, processed_events, snapshots, config, same_engine,
                   store_vars, pc, eng, disp>>

\* start_ledger <= end_ledger, both near 0 or both near u64::MAX
LoopInputs ==
    { [start |-> s, end |-> e] : s \in { Lo(n) : n \in 0..MaxLedger }, e \in { Lo(n) : n \in 0..(MaxLedger + 1) } }
    \cup { [start |-> s, end |-> e] : s \in { Hi(d) : d \in 0..(MaxLedger + 1) }, e \in { Hi(d) : d \in 0..1 } }

InitLoop ==
    /\ InitIdle
    /\ events = <<>>
    /\ checkpoints = <<>>
    /\ probe \in { [build |-> b, start_ledger |-> r.start, end_ledger |-> r.end,
                     current_ledger |-> r.start, batch_end |-> r.start, batch_size |-> n,
                     iterations |-> 0, state |-> "loop"] :
                        b \in {"debug", "release"}, r \in { q \in LoopInputs : Le(q.start, q.end) },
                        n \in 1..(MaxLedger + 1) }

NextLoop == LoopIteration

SpecLoop == InitLoop /\ [][NextLoop]_vars

(***************************************************************************)
(* The dispatcher used directly on one stored event that may lack its      *)
(* payload or its contract id, with processor lists that hold processors   *)
(* for different event types in either order.                              *)
(***************************************************************************)
\* an implementor of EventProcessor that handles the events of type "other"
\* the way the snapshot processor handles its own
OtherEventProcessor == [name |-> "OtherEventProcessor", handles |-> "other"]

DispatchLists ==
    {<<>>, <<SnapshotEventProcessor>>, <<SnapshotEventProcessor, SnapshotEventProcessor>>,
     <<SnapshotEventProcessor, OtherEventProcessor>>,
     <<OtherEventProcessor, SnapshotEventProcessor>>}

DispatchEvents == { MkEvent(1, 0, k) : k \in {"A", "B", "NoData", "NoContract"} }

InitDispatch ==
    /\ events \in { <<e>> : e \in DispatchEvents }
    /\ processors \in DispatchLists
    /\ config = DefaultConfig
    /\ same_engine = FALSE
    /\ pc = [c \in Calls |-> IF c = 1 THEN "direct" ELSE "off"]
    /\ processed_events \in SUBSET StoredIds
    /\ InitStores

SpecDispatch == InitDispatch /\ [][NextRetry]_vars

(***************************************************************************)
(* Properties                                                              *)
(***************************************************************************)
Row(c) == sessions[SessionId(c)]

\* the stored events of the resolved range that follow event id in store order
LaterInRange(c, id) ==
    { events[j].id : j \in { k \in 1..Len(events) :
        /\ events[k].id > id
        /\ events[k].ledger_sequence >= eng[c].start_ledger[1]
        /\ events[k].ledger_sequence <= eng[c].end_ledger
        /\ FilterClause(config.filter, events[k]) } }

DispatchedIds(c) == { eng[c].dispatched[j] : j \in 1..Len(eng[c].dispatched) }

\* what holds of the failure accounting of a finished call whatever the store held
FailureAccounting(c) ==
    /\ pc[c] = "done"
    /\ eng[c].ret.kind = "Ok"
    /\ eng[c].ret.metadata[1].status =
          Completed(Len(eng[c].dispatched) - Cardinality(eng[c].failed_ids),
                    Cardinality(eng[c].failed_ids))
    /\ Cardinality(DispatchedIds(c)) = Len(eng[c].dispatched)

\* C1: when the stores stay available, start() ends Completed, counts every
\* failed event exactly once in events_failed, and has dispatched every event of
\* the range that follows a failed event.
C1_FailuresNeverAbort ==
    \A c \in Calls :
        (pc[c] = "done" /\ ~eng[c].store_failed) =>
            /\ FailureAccounting(c)
            /\ \A f \in eng[c].failed_ids : LaterInRange(c, f) \subseteq DispatchedIds(c)

\* the part of C1 that does not depend on the batch window: the call ends
\* Completed and every failed event is counted once
C1_CountsOnly ==
    \A c \in Calls : (pc[c] = "done" /\ ~eng[c].store_failed) => FailureAccounting(c)

\* a storage error ended the batch loop of call c
LoopFailed(c) == eng[c].loop_error # None

\* the Failed status the claim describes for call c
ExpectedFailed(c) == Failed(eng[c].loop_error, eng[c].last_in_progress)

C3_ErrorPropagates ==
    \A c \in Calls : (pc[c] = "done" /\ LoopFailed(c)) => eng[c].ret.kind = "Err"

\* C4: in the step in which start() returns a ReplayMetadata, its status is
\* Completed or Failed and the metadata stored under the session id has the
\* same status (with its counts) and the same ended_at.
C4_TerminalPersistedOnReturn ==
    [][\A c \in Calls :
         (pc[c] # "done" /\ pc'[c] = "done" /\ eng'[c].ret.kind = "Ok") =>
             LET returned == eng'[c].ret.metadata[1]
             IN /\ Terminal(returned.status)
                /\ returned.ended_at # <<>>
                /\ get_status(c)' # <<>>
                /\ get_status(c)'[1].status = returned.status
                /\ get_status(c)'[1].ended_at = returned.ended_at]_vars

\* start() has returned Completed with a processed and a failed event
C4_Witness ==
    \E c \in Calls :
        /\ pc[c] = "done" /\ eng[c].ret.kind = "Ok"
        /\ eng[c].ret.metadata[1].status = Completed(1, 1)
        /\ Row(c)[1].status = Completed(1, 1)

\* C5: whenever start() has returned, the stored status of its session is
\* Completed or Failed.
C5_ReturnsOnlyWhenTerminal ==
    \A c \in Calls : (pc[c] = "done" /\ Row(c) # <<>>) => Terminal(Row(c)[1].status)

\* C6: once the stored status of a session id is Completed or Failed, no step
\* of the engine changes the row stored under that session id.
C6_TerminalNeverReentered ==
    [][\A s \in Calls :
         (sessions[s] # <<>> /\ Terminal(sessions[s][1].status)) =>
             sessions'[s] = sessions[s]]_vars

\* C7 as stated: a dispatch of an event that was already marked processed
\* returns the skipped result and invokes neither process_event nor
\* mark_processed.
C7_MarkedAlwaysSkipped ==
    \A c \in Calls :
        (disp[c].marked_at_start /\ disp[c].state = "returned") =>
            /\ disp[c].ret = ResultSkipped
            /\ disp[c].process_calls = 0
            /\ disp[c].mark_calls = 0

\* the errors of an attempt that never got an answer from is_processed
LookupErrors == {"database error", "Processing timeout"}

\* C7 amended: for an event already marked processed, no dispatch invokes
\* process_event or mark_processed of any processor; with at least one
\* processor registered, every attempt on which the is_processed lookup answers
\* returns success with skipped = true and zero StateChange records, so the
\* dispatch returns that result unless the lookup failed or timed out on every
\* attempt; with no processor registered it returns the failure
\* 'No processor found for event'.
C7_MarkedNeverReprocessed ==
    \A c \in Calls :
        disp[c].marked_at_start =>
            /\ disp[c].process_calls = 0
            /\ disp[c].mark_calls = 0
            /\ disp[c].process_ok = 0
            /\ disp[c].state \notin {"process", "mark"}
            /\ disp[c].last_error # None =>
                  IF processors = <<>>
                  THEN disp[c].last_error = "No processor found for event"
                  ELSE disp[c].last_error \in LookupErrors
            /\ disp[c].state = "returned" =>
                  \/ /\ disp[c].ret = ResultSkipped
                     /\ disp[c].ret.state_changes = <<>>
                     /\ processors # <<>>
                  \/ /\ disp[c].ret = ResultFailure(disp[c].last_error)
                     /\ disp[c].attempts = disp[c].max_retries + 1

\* a marked event was dispatched with retries and came back skipped after a
\* lookup that failed once
C7_Witness ==
    \E c \in Calls :
        /\ disp[c].marked_at_start /\ disp[c].state = "returned"
        /\ disp[c].ret = ResultSkipped
        /\ disp[c].max_retries = MaxRetries
        /\ disp[c].attempts = 1

\* C9: process_with_retry runs at most max_retries + 1 attempts, returns at the
\* first successful attempt (every attempt before it failed and none follows
\* it), and returns a failure only after exactly max_retries + 1 failed attempts.
C9_RetryBound ==
    \A c \in Calls :
        /\ disp[c].attempts_run <= disp[c].max_retries + 1
        /\ disp[c].state \in {"check", "process", "mark"} =>
              disp[c].attempts_run = disp[c].attempts + 1
        /\ disp[c].state = "loop" => disp[c].attempts_run = disp[c].attempts
        /\ (disp[c].state = "returned" /\ disp[c].ret.success) =>
              disp[c].attempts_run = disp[c].attempts + 1
        /\ (disp[c].state = "returned" /\ ~disp[c].ret.success) =>
              /\ disp[c].attempts_run = disp[c].max_retries + 1
              /\ disp[c].attempts = disp[c].max_retries + 1

\* two failed attempts, then success on the third, with max_retries = 3
C9_Witness ==
    \E c \in Calls :
        /\ disp[c].state = "returned" /\ disp[c].ret.success /\ ~disp[c].ret.skipped
        /\ disp[c].max_retries = 3
        /\ disp[c].attempts = 2 /\ disp[c].attempts_run = 3

\* C10: there is no sleep before the first attempt, exactly one sleep before
\* each later attempt and none after the last one, and the k-th sleep lasts
\* 100 ms * 2^k.
C10_BackoffSchedule ==
    \A c \in Calls :
        /\ Len(disp[c].sleeps) = IF disp[c].attempts_run = 0 THEN 0
                                 ELSE disp[c].attempts_run - 1
        /\ \A k \in 1..Len(disp[c].sleeps) : disp[c].sleeps[k] = 100 * (2 ^ k)

\* a dispatch that failed after three retries slept 200, 400 and 800 ms
C10_Witness ==
    \E c \in Calls :
        /\ disp[c].state = "returned" /\ ~disp[c].ret.success
        /\ disp[c].max_retries = 3
        /\ disp[c].sleeps = <<200, 400, 800>>

\* both calls of start() returned Completed, each on its own engine
BothCompleted ==
    /\ ~same_engine
    /\ \A c \in Calls :
          /\ pc[c] = "done" /\ eng[c].ret.kind = "Ok"
          /\ eng[c].ret.metadata[1].status.tag = "Completed"

\* the state_snapshot of the final checkpoint of call c
FinalSnapshot(c) == eng[c].ret.metadata[1].checkpoint[1].state_snapshot

AttemptErrors == {"database error", "Unknown event type", "No processor found for event"}

\* C11: when process_with_retry returns a failure, all max_retries + 1 attempts
\* ran and failed, the value returned is a failure result (not skipped, no state
\* changes), and its error is the error of the last attempt: 'Processing
\* timeout' exactly when that attempt timed out, 'Unknown error' only when no
\* error was recorded.
C11_ExhaustionReturnsLastError ==
    \A c \in Calls :
        (disp[c].state = "returned" /\ ~disp[c].ret.success) =>
            /\ disp[c].attempts_run = disp[c].max_retries + 1
            /\ disp[c].ret = ResultFailure(disp[c].ret.error)
            /\ disp[c].ret.error = (IF disp[c].last_error = None THEN "Unknown error"
                                    ELSE disp[c].last_error)
            /\ disp[c].timed_out <=> disp[c].ret.error = "Processing timeout"
            /\ ~disp[c].timed_out => disp[c].ret.error \in AttemptErrors

\* retries were exhausted, the last attempt timed out after an earlier attempt
\* had failed with another error
C11_Witness ==
    \E c \in Calls :
        /\ disp[c].state = "returned" /\ ~disp[c].ret.success
        /\ disp[c].max_retries = 2 /\ disp[c].attempts_run = 3
        /\ disp[c].timed_out
        /\ disp[c].ret.error = "Processing timeout"

\* C12: every dispatch attempt of a session runs under a timeout equal to the
\* event_timeout_secs of the session's ReplayConfig.
C12_TimeoutIsConfigured ==
    \A c \in Calls :
        (pc[c] = "processing" /\ disp[c].state # "idle") =>
            disp[c].timeout = config.event_timeout_secs

\* C13: the state builder's apply_event is invoked for an event only if its
\* result is success and not skipped and the mode is Full or Verification.
C13_ApplyOnlyUnskipped ==
    [][\A c \in Calls :
         (pc[c] = "processing" /\ state_builder' # state_builder) =>
             /\ disp[c].ret.success
             /\ ~disp[c].ret.skipped
             /\ config.mode \in {"Full", "Verification"}]_vars

\* the part of C13 that does not concern skipped events: apply_event is never
\* invoked for a failed event or in Incremental or Debug mode
C13_ApplyOnlyOnSuccess ==
    [][\A c \in Calls :
         (pc[c] = "processing" /\ state_builder' # state_builder) =>
             /\ disp[c].ret.success
             /\ config.mode \in {"Full", "Verification"}]_vars

\* C14: in a dry-run session no step changes the processed markers, the
\* snapshots or the sink: mark_processed and persist_state are never called.
\* In a session that is not dry-run, mark_processed is called after every
\* process_event that returns success, and persist_state is called at most
\* once, after the final checkpoint, and exactly once by the time the status
\* becomes Completed.
C14_DryRunCommitsNothing ==
    [][\A c \in Calls :
         /\ config.dry_run =>
               /\ processed_events' = processed_events
               /\ snapshots' = snapshots
               /\ sink' = sink
               /\ disp'[c].mark_calls = 0
               /\ disp'[c].state # "mark"
               /\ eng'[c].persist_calls = 0
         /\ ~config.dry_run =>
               /\ (disp[c].state = "process" /\ disp'[c].process_ok = disp[c].process_ok + 1) =>
                     /\ disp'[c].state = "mark"
                     /\ disp'[c].mark_calls = disp[c].mark_calls + 1
               /\ eng'[c].persist_calls <= 1
               /\ eng'[c].persist_calls # eng[c].persist_calls =>
                     /\ pc[c] = "fetch"
                     /\ eng[c].current_ledger > eng[c].end_ledger
                     /\ eng'[c].md.checkpoint # <<>>
                     /\ eng'[c].md.checkpoint[1].last_ledger = eng[c].end_ledger
               /\ sink' # sink =>
                     \E o \in Calls : eng'[o].persist_calls = eng[o].persist_calls + 1
               /\ (pc'[c] = "save_final" /\ eng'[c].md.status.tag = "Completed") =>
                     /\ eng'[c].persist_calls = 1
                     /\ sink'[EngineOf(c)] = Some(state_builder[EngineOf(c)])]_vars

\* a dry-run session completed with a successfully processed event and left
\* no marker, no snapshot and nothing in the sink
C14_Witness ==
    \E c \in Calls :
        /\ config.dry_run
        /\ pc[c] = "done" /\ eng[c].ret.kind = "Ok"
        /\ eng[c].md.status.tag = "Completed"
        /\ eng[c].total_processed >= 1
        /\ processed_events = {} /\ snapshots = {}
        /\ sink[EngineOf(c)] = <<>>

\* the checkpoints recorded for the session of call c
SessionCheckpoints(c) ==
    { i \in 1..Len(checkpoints) : checkpoints[i].session_id = SessionId(c) }

\* the stored events on ledger l of kind k
OnLedger(l, k) ==
    { events[i].id : i \in { j \in 1..Len(events) :
        /\ events[j].ledger_sequence = l
        /\ events[j].event_type = KindFields(k).event_type } }

\* call c ran over the single ledger L = config.range.start with a batch that
\* holds every event of L and checkpoint_interval 1, no store failed, and the
\* events that failed are exactly those no processor handles
SingleLedgerRun(c) ==
    /\ pc[c] = "done" /\ ~eng[c].store_failed
    /\ config.range.tag = "FromTo" /\ config.range.start = config.range.end
    /\ config.checkpoint_interval = 1
    /\ config.batch_size >= Cardinality(OnLedger(config.range.start, "A")
                                        \cup OnLedger(config.range.start, "B"))
    /\ eng[c].failed_ids = OnLedger(config.range.start, "B")

\* the part of C15 about the status: Completed with events_processed = a and
\* events_failed = b
C15_CountsIsolated ==
    \A c \in Calls :
        SingleLedgerRun(c) =>
            /\ eng[c].ret.kind = "Ok"
            /\ Row(c)[1].status =
                  Completed(Cardinality(OnLedger(config.range.start, "A")),
                            Cardinality(OnLedger(config.range.start, "B")))

\* C15: such a session ends Completed with events_processed = a and
\* events_failed = b, and exactly one checkpoint is recorded for the session,
\* at last_ledger = L, carrying those counts.
C15_SingleCheckpointAtL ==
    \A c \in Calls :
        SingleLedgerRun(c) =>
            /\ eng[c].ret.kind = "Ok"
            /\ Row(c)[1].status =
                  Completed(Cardinality(OnLedger(config.range.start, "A")),
                            Cardinality(OnLedger(config.range.start, "B")))
            /\ Cardinality(SessionCheckpoints(c)) = 1
            /\ \A i \in SessionCheckpoints(c) :
                  /\ checkpoints[i].last_ledger = config.range.start
                  /\ checkpoints[i].events_processed =
                        Cardinality(OnLedger(config.range.start, "A"))
                  /\ checkpoints[i].events_failed =
                        Cardinality(OnLedger(config.range.start, "B"))

\* C16: in the step in which the batch loop has ended and the status becomes
\* Completed, exactly one checkpoint is appended to the checkpoint store: it
\* has last_ledger = end_ledger and the final totals, it is the checkpoint of
\* the metadata, and its counts are those of Completed; when Completed is then
\* stored, the stored metadata references that checkpoint and it is in the
\* checkpoint store.
C16_FinalCheckpoint ==
    [][\A c \in Calls :
         /\ (pc[c] = "fetch" /\ eng'[c].md.status.tag = "Completed") =>
               /\ eng[c].current_ledger > eng[c].end_ledger
               /\ ~LoopFailed(c)
               /\ Len(checkpoints') = Len(checkpoints) + 1
               /\ SubSeq(checkpoints', 1, Len(checkpoints)) = checkpoints
               /\ eng'[c].md.checkpoint = Some(checkpoints'[Len(checkpoints')])
               /\ LET final == checkpoints'[Len(checkpoints')]
                  IN /\ final.session_id = SessionId(c)
                     /\ final.last_ledger = eng[c].end_ledger
                     /\ final.events_processed = eng[c].total_processed
                     /\ final.events_failed = eng[c].total_failed
                     /\ eng'[c].md.status =
                           Completed(final.events_processed, final.events_failed)
         /\ (pc[c] = "save_final" /\ pc'[c] = "done" /\ Row(c)'[1].status.tag = "Completed") =>
               /\ Row(c)'[1].checkpoint # <<>>
               /\ \E i \in 1..Len(checkpoints') : checkpoints'[i] = Row(c)'[1].checkpoint[1]
               /\ Row(c)'[1].checkpoint[1].last_ledger = eng[c].end_ledger
               /\ Row(c)'[1].status =
                     Completed(Row(c)'[1].checkpoint[1].events_processed,
                               Row(c)'[1].checkpoint[1].events_failed)]_vars

\* Completed was stored after two batches, with a final checkpoint at
\* end_ledger that counts one processed and one failed event
C16_Witness ==
    \E c \in Calls :
        /\ pc[c] = "done" /\ eng[c].ret.kind = "Ok"
        /\ eng[c].fetches = 2
        /\ Row(c)[1].status = Completed(1, 1)
        /\ Row(c)[1].checkpoint # <<>>
        /\ Row(c)[1].checkpoint[1].last_ledger = eng[c].end_ledger
        /\ Row(c)[1].checkpoint[1].events_processed = 1
        /\ Row(c)[1].checkpoint[1].events_failed = 1
        /\ \E i \in 1..Len(checkpoints) : checkpoints[i] = Row(c)[1].checkpoint[1]

\* C17: when the range is FromCheckpoint and the checkpoint store holds no
\* checkpoint with that id, start() returns an error and the session has
\* dispatched no event (stated for the calls in which every store answered).
C17_MissingCheckpointIsError ==
    \A c \in Calls :
        (/\ pc[c] = "done" /\ ~eng[c].store_failed
         /\ config.range.tag = "FromCheckpoint"
         /\ load(config.range.checkpoint_id) = <<>>) =>
            /\ eng[c].ret.kind = "Err"
            /\ eng[c].dispatched = <<>>

\* the start the claim gives for a range
ExpectedStart(range, latest, checkpoint_ledger) ==
    IF range.tag \in {"All", "To"} THEN Some(0)
    ELSE IF range.tag \in {"From", "FromTo"} THEN Some(range.start)
    ELSE IF range.tag = "FromCheckpoint" THEN checkpoint_ledger
    ELSE Some(IF latest - range.count > 0 THEN latest - range.count ELSE 0)

\* the end the claim gives for a range
ExpectedEnd(range, latest) ==
    IF range.tag \in {"To", "FromTo"} THEN Some(range.end) ELSE Some(latest)

\* C18: start_ledger is 0 for All/To, the given start for From/FromTo, the
\* checkpoint ledger (none when none is given) for FromCheckpoint and
\* max(latest - count, 0) for Last; end_ledger is the given end for To/FromTo
\* and latest otherwise; contains(ledger) is true exactly when
\* start <= ledger <= end with a missing start taken as 0.
C18_RangeResolution ==
    LET es == ExpectedStart(probe.range, probe.latest, probe.checkpoint_ledger)
        ee == ExpectedEnd(probe.range, probe.latest)
    IN /\ "start" \in probe.computed => probe.start = es
       /\ "end" \in probe.computed => probe.end = ee
       /\ "contains" \in probe.computed =>
             (probe.contains <=>
                 /\ (IF es = <<>> THEN 0 ELSE es[1]) <= probe.ledger
                 /\ probe.ledger <= ee[1])
       /\ (probe.range = RangeLast(100) /\ probe.latest = 1000
            /\ {"start", "end"} \subseteq probe.computed) =>
             (probe.start = Some(900) /\ probe.end = Some(1000))
       /\ (probe.range = RangeFromTo(100, 200) /\ "contains" \in probe.computed) =>
             (probe.contains <=> probe.ledger = 150)

\* Last{100} with latest 1000 resolved to 900..1000, which does not contain 150
C18_Witness ==
    /\ probe.range = RangeLast(100) /\ probe.latest = 1000
    /\ probe.computed = {"start", "end", "contains"}
    /\ probe.start = Some(900) /\ probe.end = Some(1000)
    /\ probe.ledger = 150 /\ ~probe.contains

\* the configs the claim calls invalid
Invalid(cf) ==
    \/ cf.batch_size = 0
    \/ cf.max_workers = 0
    \/ cf.checkpoint_interval = 0
    \/ cf.event_timeout_secs = 0
    \/ (cf.range.tag = "FromTo" /\ cf.range.start > cf.range.end)
    \/ (cf.range.tag = "FromCheckpoint" /\ cf.range.checkpoint_id = 0)

\* C19: once new() has validated the config, it has returned an error exactly
\* when batch_size, max_workers, checkpoint_interval or event_timeout is 0, or
\* the range is FromTo with start > end or FromCheckpoint with an empty id; the
\* default config is accepted.
C19_ValidateIff ==
    \A c \in Calls :
        pc[c] \notin {"new", "off"} =>
            /\ (pc[c] = "rejected") <=> Invalid(config)
            /\ pc[c] = "rejected" => (eng[c].ret.kind = "Err" /\ eng[c].ret.error # None)
            /\ config = DefaultConfig => pc[c] # "rejected"

\* a config whose only violation is the inverted FromTo range was rejected
C19_Witness ==
    \E c \in Calls :
        /\ pc[c] = "rejected"
        /\ config.range = RangeFromTo(2, 1)
        /\ config.batch_size > 0 /\ config.max_workers > 0
        /\ config.checkpoint_interval > 0 /\ config.event_timeout_secs > 0
        /\ eng[c].ret.error = "Invalid range"

\* C20: for an invalid config new() returns an error and no engine, start() is
\* never entered, and no session metadata, checkpoint, marker or snapshot is
\* written.
C20_InvalidConfigNeverStarts ==
    \A c \in Calls :
        (Invalid(config) /\ pc[c] # "off") =>
            /\ pc[c] \in {"new", "rejected"}
            /\ pc[c] = "rejected" => eng[c].ret.kind = "Err"
            /\ eng[c].md = EngIdle.md /\ eng[c].dispatched = <<>> /\ eng[c].fetches = 0
            /\ \A s \in Calls : sessions[s] = <<>>
            /\ checkpoints = <<OldCheckpoint>>
            /\ processed_events = {} /\ snapshots = {}
            /\ \A e \in Calls : sink[e] = <<>> /\ state_builder[e] = <<>>

\* new() was called with batch_size = 0 over a store that holds events, and
\* returned the error
C20_Witness ==
    \E c \in Calls :
        /\ pc[c] = "rejected" /\ eng[c].ret.kind = "Err"
        /\ config.batch_size = 0
        /\ Len(events) > 0
        /\ sessions[SessionId(c)] = <<>>

\* C21: save(c) followed by load(c.id) returns a checkpoint equal to c in every
\* field, whatever the checkpoint store held before.
C21_CheckpointRoundTrip ==
    probe.step = "loaded" => probe.loaded = Some(probe.arg)

\* the part of C21 that holds: the fields the upsert writes always round-trip,
\* and every field does when no row was stored under c.id
C21_RoundTripOfWrittenFields ==
    probe.step = "loaded" =>
        /\ probe.loaded # <<>>
        /\ probe.loaded[1].id = probe.arg.id
        /\ probe.loaded[1].last_ledger = probe.arg.last_ledger
        /\ probe.loaded[1].events_processed = probe.arg.events_processed
        /\ probe.loaded[1].events_failed = probe.arg.events_failed
        /\ probe.loaded[1].state_snapshot = probe.arg.state_snapshot
        /\ probe.loaded[1].metadata = probe.arg.metadata
        /\ Len(checkpoints) = 0 => probe.loaded = Some(probe.arg)

\* the filter semantics of the claim: every present dimension must match
Matches(filter, event) ==
    /\ filter.contract_ids = <<>> \/ event.contract_id \in filter.contract_ids[1]
    /\ filter.event_types = <<>> \/ event.event_type \in filter.event_types[1]
    /\ filter.network = <<>> \/ event.network = filter.network[1]

\* the rows the claim expects, in store order, before the limit
ExpectedRows(start, end, filter) ==
    LET Wanted(e) == /\ e.ledger_sequence >= start /\ e.ledger_sequence <= end
                     /\ Matches(filter, e)
    IN SelectSeq(events, Wanted)

\* C22: get_events_in_range returns exactly the stored events of the ledger
\* range that satisfy every present filter dimension, in (ledger_sequence, id)
\* order, truncated to the first limit events.
C22_FilteredRange ==
    probe.step = "returned" =>
        LET rows == ExpectedRows(probe.start, probe.end, probe.filter)
        IN probe.result = (IF probe.limit # <<>> /\ Len(rows) > probe.limit[1]
                           THEN SubSeq(rows, 1, probe.limit[1]) ELSE rows)

\* the part of C22 that holds: without any filter dimension the result is the
\* ledger range in store order, truncated to the limit
C22_UnfilteredRange ==
    (probe.step = "returned" /\ probe.filter = NoFilter) =>
        LET rows == ExpectedRows(probe.start, probe.end, NoFilter)
        IN probe.result = (IF probe.limit # <<>> /\ Len(rows) > probe.limit[1]
                           THEN SubSeq(rows, 1, probe.limit[1]) ELSE rows)

\* the position of a stored event in store order (ledger_sequence, then id)
StorePos(id) == CHOOSE i \in 1..Len(events) : events[i].id = id

\* C23: a session starts the first attempt of an event only when no event is
\* in flight (every attempt of the previous event has ended and its result has
\* been handled, state builder application included), the event it starts
\* follows every event dispatched before it in store order, and the state
\* builder is only ever extended by the event in flight, which ends that event.
C23_SequentialInOrder ==
    [][\A c \in Calls :
         /\ eng'[c].dispatched # eng[c].dispatched =>
               /\ disp[c].state = "idle"
               /\ Len(eng'[c].dispatched) = Len(eng[c].dispatched) + 1
               /\ SubSeq(eng'[c].dispatched, 1, Len(eng[c].dispatched)) = eng[c].dispatched
               /\ \A k \in 1..Len(eng[c].dispatched) :
                     StorePos(eng[c].dispatched[k]) <
                         StorePos(eng'[c].dispatched[Len(eng'[c].dispatched)])
               /\ disp'[c].state = "loop" /\ disp'[c].attempts_run = 0
               /\ disp'[c].event.id = eng'[c].dispatched[Len(eng'[c].dispatched)]
         /\ disp[c].state # "idle" =>
               /\ eng[c].dispatched # <<>>
               /\ disp[c].event.id = eng[c].dispatched[Len(eng[c].dispatched)]
               /\ eng'[c].dispatched = eng[c].dispatched
         /\ (pc[c] = "processing" /\ state_builder' # state_builder) =>
               /\ state_builder'[EngineOf(c)] =
                     Append(state_builder[EngineOf(c)], eng[c].dispatched[Len(eng[c].dispatched)])
               /\ disp[c].state = "returned"
               /\ disp'[c].state = "idle"]_vars

\* two events of different batches were dispatched and applied one after the
\* other
C23_Witness ==
    \E c \in Calls :
        /\ pc[c] = "done"
        /\ eng[c].dispatched = <<1, 2>>
        /\ eng[c].fetches >= 2
        /\ events[1].ledger_sequence < events[2].ledger_sequence
        /\ state_builder[EngineOf(c)] = <<1, 2>>

\* the ledger of the most recent checkpoint of the session of call c, or its
\* start_ledger when it has none yet
LastCheckpointLedger(c) ==
    IF SessionCheckpoints(c) = {} THEN eng[c].start_ledger[1]
    ELSE checkpoints[CHOOSE i \in SessionCheckpoints(c) :
                        \A j \in SessionCheckpoints(c) : j <= i].last_ledger

\* C24: at every batch boundary at which the loop has advanced
\* checkpoint_interval or more ledgers past the session's most recent
\* checkpoint (or past start_ledger when there is none), a checkpoint is saved.
C24_CheckpointEveryInterval ==
    [][\A c \in Calls :
         (/\ pc[c] = "events" /\ pc'[c] = "fetch"
          /\ eng'[c].current_ledger - LastCheckpointLedger(c) >= config.checkpoint_interval) =>
             Len(checkpoints') = Len(checkpoints) + 1]_vars

\* C25: once pause() has been called, the status becomes Paused at the next
\* batch boundary.
C25_PauseTakesEffect ==
    [][\A c \in Calls :
         (eng[c].pause_requested /\ pc[c] = "events" /\ pc'[c] = "fetch") =>
             eng'[c].md.status.tag = "Paused"]_vars

\* C26: in a Debug-mode session no event is marked processed, no event is
\* applied to the state builder and persist_state is not called.
C26_DebugCommitsNothing ==
    config.mode = "Debug" =>
        /\ processed_events = {}
        /\ \A e \in Calls : state_builder[e] = <<>>
        /\ \A c \in Calls : eng[c].persist_calls = 0

\* the part of C26 that holds: in Debug mode nothing is applied to the state
\* builder
C26_DebugAppliesNothing ==
    config.mode = "Debug" => \A e \in Calls : state_builder[e] = <<>>

\* C27: when the operation fails with RateLimitError carrying retry_after = d
\* and fewer than max_retries retries have been made, retry_with_backoff waits
\* d and calls the operation again instead of returning the error.
C27_RetryAfterRespected ==
    [][(/\ probe.state = "calling" /\ probe'.calls = probe.calls + 1
        /\ probe'.last.tag = "RateLimitError" /\ probe'.last.retry_after # <<>>
        /\ probe.attempt < probe.max_retries) =>
           /\ probe'.state = "calling"
           /\ probe'.sleeps = Append(probe.sleeps, probe'.last.retry_after[1])]_vars

RECURSIVE Pow2(_)
Pow2(n) == IF n = 0 THEN 1 ELSE 2 * Pow2(n - 1)

\* the part of C27 that holds: the i-th wait is initial_backoff doubled i-1
\* times, capped at max_backoff, and at most max_retries retries are made
C27_BackoffSchedule ==
    probe.state \in {"calling", "returned"} =>
        /\ Len(probe.sleeps) = probe.attempt /\ probe.attempt <= probe.max_retries
        /\ \A i \in 1..Len(probe.sleeps) :
              /\ probe.sleeps[i] = min(probe.initial_backoff * Pow2(i - 1), probe.max_backoff)
              /\ probe.sleeps[i] <= probe.max_backoff

\* the stored events of the ledger range of call c that match the configured
\* filter
Covered(c) ==
    { i \in 1..Len(events) :
        /\ eng[c].start_ledger[1] <= events[i].ledger_sequence
        /\ events[i].ledger_sequence <= eng[c].end_ledger
        /\ Matches(config.filter, events[i]) }

\* C28: when a session ends Completed, every stored event of its range that
\* matches the filter has been dispatched exactly once, and events_processed +
\* events_failed is the number of such events.
C28_CompleteCoverage ==
    \A c \in Calls :
        (pc[c] = "done" /\ eng[c].md.status.tag = "Completed") =>
            /\ \A i \in Covered(c) :
                  Cardinality({ k \in 1..Len(eng[c].dispatched) :
                                  eng[c].dispatched[k] = events[i].id }) = 1
            /\ eng[c].md.status.events_processed + eng[c].md.status.events_failed
                  = Cardinality(Covered(c))

\* the part of C28 that holds: no event is dispatched twice and every
\* dispatched event is a covered one
C28_NoDoubleDispatch ==
    \A c \in Calls :
        \A k \in 1..Len(eng[c].dispatched) :
            /\ \A j \in 1..Len(eng[c].dispatched) :
                  eng[c].dispatched[j] = eng[c].dispatched[k] => j = k
            /\ \E i \in Covered(c) : events[i].id = eng[c].dispatched[k]

\* C30: every checkpoint of a session has last_ledger <= end_ledger, and in
\* creation order the checkpoints of one session have non-decreasing
\* last_ledger, events_processed and events_failed.
C30_CheckpointsMonotone ==
    \A c \in Calls :
        \A i \in SessionCheckpoints(c) :
            /\ checkpoints[i].last_ledger <= eng[c].end_ledger
            /\ \A j \in SessionCheckpoints(c) :
                  i < j => /\ checkpoints[i].last_ledger <= checkpoints[j].last_ledger
                           /\ checkpoints[i].events_processed <= checkpoints[j].events_processed
                           /\ checkpoints[i].events_failed <= checkpoints[j].events_failed

\* the part of C30 that holds: the counts of the checkpoints of one session
\* never decrease
C30_CountsMonotone ==
    \A c \in Calls :
        \A i, j \in SessionCheckpoints(c) :
            i < j => /\ checkpoints[i].events_processed <= checkpoints[j].events_processed
                     /\ checkpoints[i].events_failed <= checkpoints[j].events_failed

\* call 2 resumed the interrupted session of call 1 from its most recent
\* checkpoint, over the same ledgers, and ended Completed; no event failed in
\* either session
Resumed ==
    /\ config.range.tag = "FromCheckpoint"
    /\ pc[2] = "done" /\ eng[2].ret.kind = "Ok"
    /\ eng[2].md.status.tag = "Completed"
    /\ eng[2].end_ledger = eng[1].end_ledger
    /\ eng[1].failed_ids = {} /\ eng[2].failed_ids = {}

\* the ids of the events of ledgers start..end in store order: the
\* state_snapshot of an uninterrupted replay in which no event fails
UninterruptedSnapshot(start, end) ==
    LET InRange(e) == e.ledger_sequence >= start /\ e.ledger_sequence <= end
        rows == SelectSeq(events, InRange)
    IN to_json([i \in 1..Len(rows) |-> rows[i].id])

\* C29: the final checkpoint of a session resumed with FromCheckpoint from an
\* interrupted Full-mode replay of [start,end] has the state_snapshot of an
\* uninterrupted replay of [start,end], and no event of the range is left
\* undispatched.
C29_ResumeEquivalent ==
    Resumed =>
        /\ FinalSnapshot(2) = UninterruptedSnapshot(eng[1].start_ledger[1], eng[1].end_ledger)
        /\ \A i \in Covered(1) : events[i].id \in DispatchedIds(1) \cup DispatchedIds(2)

\* the part of C29 that holds: the two sessions together dispatch every event
\* of the range
C29_NothingUndispatched ==
    Resumed =>
        \A i \in Covered(1) : events[i].id \in DispatchedIds(1) \cup DispatchedIds(2)

\* C31: in a non-dry-run context, within one process_with_retry call
\* process_event completes successfully for the event at most once.
C31_AtMostOnceAcrossRetries ==
    \A c \in Calls : ~disp[c].dry_run => disp[c].process_ok <= 1

\* the part of C31 that holds: once the marker is written, no later attempt of
\* the call runs process_event
C31_NoRunAfterMarker ==
    [][\A c \in Calls :
         (disp[c].state = "check" /\ disp'[c].state = "process") =>
             unique_id(disp[c].event) \notin processed_events]_vars

\* C32: when two sessions dispatch the same event concurrently (not dry-run),
\* a session starts process_event on it only if the other session is not
\* running process_event or mark_processed on it.
C32_OneSessionProcesses ==
    [][\A c \in Calls, o \in Calls :
         (/\ o # c
          /\ disp[c].state = "check" /\ disp'[c].state = "process"
          /\ disp[o].event = disp[c].event) =>
             disp[o].state \notin {"process", "mark"}]_vars

\* the part of C32 that holds: a session that checks is_processed after the
\* other session wrote the marker gets the skipped result
C32_SkippedAfterMarker ==
    [][\A c \in Calls :
         (/\ disp[c].state = "check" /\ disp[c].proc <= Len(processors)
          /\ unique_id(disp[c].event) \in processed_events
          /\ disp'[c].state = "returned") => disp'[c].ret = ResultSkipped]_vars

\* x < y on u64
Lt(x, y) == Le(x, y) /\ x # y

\* end_ledger - start_ledger + 1 of the run of the loop
Span == IF probe.start_ledger.hi THEN probe.start_ledger.v - probe.end_ledger.v + 1
        ELSE probe.end_ledger.v - probe.start_ledger.v + 1

\* C33: no iteration of the batch loop panics, every iteration strictly
\* increases current_ledger, and the loop makes at most
\* ceil((end_ledger - start_ledger + 1) / batch_size) iterations.
C33_LoopTerminates ==
    [][(probe.state = "loop" /\ probe' # probe) =>
          /\ probe'.state # "panicked"
          /\ probe'.state = "loop" =>
                /\ Lt(probe.current_ledger, probe'.current_ledger)
                /\ (probe'.iterations - 1) * probe.batch_size < Span]_vars

\* the part of C33 that holds: while nothing has wrapped around, an iteration
\* with end_ledger below u64::MAX and current_ledger + batch_size not above
\* u64::MAX behaves as the claim says
C33_LoopTerminatesBelowMax ==
    [][(/\ probe.state = "loop" /\ probe' # probe
        /\ probe.end_ledger # Hi(0)
        /\ Le(probe.start_ledger, probe.current_ledger)
        /\ ~AddOverflows(probe.current_ledger, probe.batch_size)) =>
          /\ probe'.state # "panicked"
          /\ probe'.state = "loop" =>
                /\ Lt(probe.current_ledger, probe'.current_ledger)
                /\ (probe'.iterations - 1) * probe.batch_size < Span]_vars

\* some processor of the list returns a success result for the event
HasHandler(event) ==
    \E q \in 1..Len(processors) : SnapshotOutcome(processors[q], event) \in {"insert", "exists"}

\* C34: when the list holds a processor whose process_event returns success
\* for the event, a dispatch of the event does not end with the unsuccessful
\* result 'Unknown event type' of an earlier processor.
C34_OrderIndependent ==
    \A c \in Calls :
        (disp[c].state = "returned" /\ HasHandler(disp[c].event)) =>
            disp[c].ret.error # "Unknown event type"

\* the part of C34 that holds: when every processor of the list handles the
\* type of the event, no dispatch ends with 'Unknown event type'
C34_OnlyHandlers ==
    \A c \in Calls :
        (/\ disp[c].state = "returned"
         /\ \A q \in 1..Len(processors) : processors[q].handles = disp[c].event.event_type) =>
            disp[c].ret.error # "Unknown event type"

\* what one step of the dispatch of call c does when process_event raises or
\* when the loop over the processors ends, msg being the message of the
\* failure result returned when no processor handled the event
FallThrough(c, msg) ==
    LET d == disp[c]
        d2 == disp'[c]
    IN \* an error raised by process_event (here: the payload lacks epoch or
       \* hash) leads to the next processor, and the attempt goes on
       /\ (/\ d.state = "process" /\ d2 # d /\ ~d2.timed_out
           /\ SnapshotOutcome(processors[d.proc], d.event) = "missing") =>
              /\ d2.state = "check" /\ d2.proc = d.proc + 1
              /\ d2.attempts = d.attempts /\ d2.last_error = d.last_error
              /\ processed_events' = processed_events
       \* no attempt ends in process_event other than by a result
       /\ (d.state = "process" /\ d2.state = "loop" /\ ~d2.timed_out) =>
              d2.last_error = "Unknown event type"
       \* every processor raised, or the list is empty
       /\ (d.state = "check" /\ d.proc > Len(processors) /\ d2 # d) =>
              /\ d2.state = "loop" /\ d2.last_error = msg
              /\ d2.mark_calls = d.mark_calls
              /\ processed_events' = processed_events
       /\ (d.state = "loop" /\ d2.state = "returned" /\ d.last_error = msg) =>
              d2.ret = ResultFailure(msg)
       /\ (d.state = "returned" /\ d.attempts_run = 1 /\ d.ret = ResultFailure(msg)) =>
              d.mark_calls = 0

\* C35 as stated: the message of the failure result is 'no processor found
\* for event'.
C35_FallThroughAsStated ==
    [][\A c \in Calls : FallThrough(c, "no processor found for event")]_vars

\* C35 amended: an error raised by process_event is not propagated, the next
\* processor is tried; when every processor raised, or the list is empty, the
\* dispatch returns a failure result with message 'No processor found for
\* event' and marks nothing as processed.
C35_FallThrough ==
    [][\A c \in Calls : FallThrough(c, "No processor found for event")]_vars

\* two processors both raised on an event without epoch and hash, and the
\* single attempt returned the failure
C35_Witness ==
    \E c \in Calls :
        /\ disp[c].state = "returned" /\ disp[c].ret = NoProcessorFound
        /\ Len(processors) = 2 /\ disp[c].process_calls = 2 /\ disp[c].attempts_run = 1
        /\ ~disp[c].event.has_data
        /\ unique_id(disp[c].event) \notin processed_events

\* C36: when validate_event of a processor rejects the event and a further
\* processor follows in the list, the dispatcher goes on to that processor.
C36_ValidationTriesNext ==
    [][\A c \in Calls :
         (/\ disp[c].state = "check" /\ disp[c].proc < Len(processors)
          /\ ~is_processed(disp[c].event)
          /\ validate_event(disp[c].event) # None
          /\ disp'[c] # disp[c]
          /\ disp'[c].last_error = validate_event(disp[c].event)) =>
             /\ disp'[c].state = "check"
             /\ disp'[c].proc = disp[c].proc + 1]_vars

\* the part of C36 that holds: a rejected event is never handed to
\* process_event of the processor that rejected it
C36_RejectedNotProcessed ==
    [][\A c \in Calls :
         (disp[c].state = "check" /\ disp'[c].state = "process") =>
             validate_event(disp[c].event) = None]_vars

\* C37: an attempt that failed because validate_event rejected the event is
\* not retried: the failure is returned at once, without a backoff sleep.
C37_ValidationNotRetried ==
    [][\A c \in Calls :
         (/\ disp[c].state = "loop" /\ disp'[c] # disp[c]
          /\ disp[c].attempts > 0 /\ ~disp[c].timed_out
          /\ disp[c].last_error \in {"Contract ID is empty", "Event type is empty"}) =>
             /\ disp'[c].state = "returned"
             /\ disp'[c].sleeps = disp[c].sleeps]_vars

\* the part of C37 that holds: an attempt that failed by timeout or by a
\* processing error is retried while attempts <= max_retries
C37_TransientRetried ==
    [][\A c \in Calls :
         (/\ disp[c].state = "loop" /\ disp'[c] # disp[c]
          /\ disp[c].attempts > 0 /\ disp[c].attempts <= disp[c].max_retries
          /\ disp[c].last_error \in {"Processing timeout", "database error"}) =>
             /\ disp'[c].state = "check"
             /\ disp'[c].attempts_run = disp[c].attempts_run + 1]_vars

\* the persisted status after may follow the persisted status before of call c
Follows(c, before, after) ==
    IF before = <<>> THEN after[1].status = Pending
    ELSE IF before[1].status.tag = "Pending"
    THEN after[1].status = InProgress(eng'[c].start_ledger[1], 0, 0)
    ELSE IF before[1].status.tag = "InProgress"
    THEN \/ Terminal(after[1].status)
         \/ /\ after[1].status.tag = "InProgress"
            /\ after[1].status.current_ledger > before[1].status.current_ledger
            /\ after[1].status.events_processed >= before[1].status.events_processed
            /\ after[1].status.events_failed >= before[1].status.events_failed
    ELSE FALSE

\* what C38 says of one step of call c, apart from the terminal status
ProgressStep(c) ==
    \* the order of the persisted statuses
    /\ Row(c)' # Row(c) => Follows(c, Row(c), Row(c)')
    \* after each batch and before the next one is fetched
    /\ (pc[c] = "events" /\ pc'[c] = "fetch") =>
          /\ Row(c)' # <<>>
          /\ Row(c)'[1].status = InProgress(eng[c].batch_end + 1, eng[c].total_processed,
                                             eng[c].total_failed)
    \* a referenced checkpoint is in the checkpoint store
    /\ (Row(c)' # Row(c) /\ Row(c)'[1].checkpoint # <<>>) =>
          \E i \in 1..Len(checkpoints') : checkpoints'[i] = Row(c)'[1].checkpoint[1]

\* C38: the metadata is persisted with InProgress{batch_end + 1, counts} after
\* each batch and before the next fetch; the persisted statuses are Pending,
\* InProgress{start_ledger, 0, 0}, InProgress values with strictly increasing
\* current_ledger and non-decreasing counts, then one terminal status, which
\* has been persisted when start() returns; a checkpoint referenced by
\* persisted metadata is in the checkpoint store.
C38_ProgressPersisted ==
    [][\A c \in Calls :
         /\ ProgressStep(c)
         /\ (pc'[c] = "done" /\ Row(c)' # <<>>) => Terminal(Row(c)'[1].status)]_vars

\* the part of C38 that holds: everything but the terminal status at return
C38_ProgressMonotone ==
    [][\A c \in Calls : ProgressStep(c)]_vars

\* C39: count_events_in_range(start, end, filter) is the number of stored
\* events of the ledger range that match every present filter dimension, and
\* the number of rows get_events_in_range returns for the same arguments
\* without a limit.
C39_CountMatchesQuery ==
    probe.count # <<>> =>
        /\ probe.count[1] = Len(ExpectedRows(probe.start, probe.end, probe.filter))
        /\ (probe.step = "returned" /\ probe.limit = <<>>) =>
              probe.count[1] = Len(probe.result)

\* the part of C39 that holds: without a filter the count is the number of
\* events of the range and of rows returned
C39_UnfilteredCount ==
    (probe.count # <<>> /\ probe.filter = NoFilter) =>
        /\ probe.count[1] = Len(ExpectedRows(probe.start, probe.end, probe.filter))
        /\ (probe.step = "returned" /\ probe.limit = <<>>) =>
              probe.count[1] = Len(probe.result)

====
